---- MODULE Spec2Model ----
(***************************************************************************)
(* fancylog: the sub-log lifecycle (src/fancylog/sublog.py) and the        *)
(* session configurer (src/fancylog/fancylog.py) over the logging          *)
(* module's channel registry.                                              *)
(*                                                                         *)
(* The registry is modelled as the logging module behaves: loggers are     *)
(* created on first getLogger, a logger's parent is its nearest existing   *)
(* dotted ancestor (else the root), a record is offered to the handlers of *)
(* the logger and, while propagate holds, to those of its ancestors, and a *)
(* record that met no handler at all goes to the last-resort stderr        *)
(* handler when it is at WARNING or above.                                 *)
(***************************************************************************)
EXTENDS Naturals, Sequences, FiniteSets, TLC

VARIABLES
    loggerDict,   \* logging's registry: logger name -> [handlers, propagate, level]
    handlerObjs,  \* every handler object ever constructed, by identity (index)
    files,        \* the file system: path -> the lines written to it
    console,      \* what console handlers printed
    lastResort,   \* what logging.lastResort printed (no handler found)
    sublogs,      \* every SubLog object constructed, by identity (index)
    life,         \* per SubLog: calls made on it so far (bookkeeping for the claims)
    now,          \* the wall clock, in seconds
    sessions,     \* number of start_logging calls made
    result        \* the last call: which operation, on which object, what it raised

vars == <<loggerDict, handlerObjs, files, console, lastResort, sublogs, life,
          now, sessions, result>>

----------------------------------------------------------------------------
(* Bounds of the model *)

MaxSubLogs == 1      \* SubLog objects constructed (Spec, SpecFault)
MaxPair == 2         \* SubLog objects constructed (SpecPair)
MaxCalls == 1        \* caller operations (log, run_subprocess, addHandler) per SubLog
MaxClose == 2        \* close() calls per SubLog
MaxClock == 1        \* seconds the clock may advance
MaxSessions == 1     \* start_logging calls
MaxStarts == 3       \* start_logging calls (SpecSession)
MaxObjects == 2      \* objects in a variables collection
MaxAttrs == 2        \* attributes of a variable object
MaxLines == 2        \* lines of a captured stdout or stderr

(* Inputs *)

Names == {"a", "b"}
OutputDirs == {"out", "tmp"}
NoName == ""                         \* None (or ""): falsy in `if parent_logger_name:`
ParentNames == {NoName, "main"}
LevelNames == {"DEBUG", "WARNING"}

\* The arguments a SubLog is constructed with: every name, parent and console
\* choice, with at most one of (output_dir, file_log_level, timestamp) off its
\* first value
SubLogArgs ==
    {a \in [name : Names, output_dir : OutputDirs, parent_logger_name : ParentNames,
            file_log_level : LevelNames, log_to_console : BOOLEAN,
            timestamp : BOOLEAN] :
        Cardinality({k \in {1, 2, 3} :
            \/ k = 1 /\ a.output_dir # "out"
            \/ k = 2 /\ a.file_log_level # "DEBUG"
            \/ k = 3 /\ a.timestamp}) <= 1}

\* The arguments of start_logging the sub-log lifecycle is explored under
SessionNames == ParentNames \cup {"main.sublog.a"}

SessionArgs ==
    [logger_name : SessionNames, file_log_level : LevelNames, log_to_file : {TRUE},
     log_to_console : {FALSE}, multiprocessing_aware : {FALSE}, timestamp : {FALSE}]

\* What a command run by run_subprocess gave, and whether check=True was passed
RunArgs ==
    {[stdout |-> <<"hello">>, stderr |-> <<"oops">>, returncode |-> 1, check |-> FALSE],
     [stdout |-> <<>>, stderr |-> <<>>, returncode |-> 0, check |-> FALSE]}

Root == "root"

\* getattr(logging, file_log_level)
LevelNo(level_name) ==
    CASE level_name = "NOTSET" -> 0
      [] level_name = "DEBUG" -> 10
      [] level_name = "INFO" -> 20
      [] level_name = "WARNING" -> 30
      [] level_name = "ERROR" -> 40

----------------------------------------------------------------------------
(* The logging module *)

World == [loggerDict |-> loggerDict, handlerObjs |-> handlerObjs, files |-> files,
          console |-> console, lastResort |-> lastResort]

NewLogger == [handlers |-> <<>>, propagate |-> TRUE, level |-> 0]

\* logging.getLogger(name): the logger of that name, created on first use
getLogger(w, name) ==
    IF name \in DOMAIN w.loggerDict
    THEN w
    ELSE [w EXCEPT !.loggerDict = (name :> NewLogger) @@ w.loggerDict]

IsDottedPrefix(a, b) ==
    /\ Len(a) < Len(b)
    /\ SubSeq(b, 1, Len(a) + 1) = a \o "."

Ancestors(w, name) ==
    {n \in DOMAIN w.loggerDict \ {Root} : IsDottedPrefix(n, name)}

\* Logger.parent: the nearest existing ancestor, the root when there is none
parent(w, name) ==
    IF Ancestors(w, name) = {}
    THEN Root
    ELSE CHOOSE n \in Ancestors(w, name) :
            \A m \in Ancestors(w, name) : Len(m) <= Len(n)

RECURSIVE getEffectiveLevel(_, _)
getEffectiveLevel(w, name) ==
    IF w.loggerDict[name].level # 0 THEN w.loggerDict[name].level
    ELSE IF name = Root THEN 0
    ELSE getEffectiveLevel(w, parent(w, name))

isEnabledFor(w, name, levelno) == levelno >= getEffectiveLevel(w, name)

\* The loggers callHandlers visits, in order: the logger, then its ancestors
\* for as long as propagate holds
RECURSIVE Chain(_, _)
Chain(w, name) ==
    IF name = Root \/ ~w.loggerDict[name].propagate
    THEN <<name>>
    ELSE <<name>> \o Chain(w, parent(w, name))

RECURSIVE Flatten(_, _)
Flatten(w, names) ==
    IF names = <<>> THEN <<>>
    ELSE w.loggerDict[Head(names)].handlers \o Flatten(w, Tail(names))

\* Handler.emit
emit(w, h, record) ==
    LET obj == w.handlerObjs[h]
        got == [w EXCEPT !.handlerObjs[h].received = Append(@, record)]
    IN  IF obj.kind = "FileHandler"
        THEN \* FileHandler.emit reopens a closed stream (mode "a")
             [got EXCEPT !.handlerObjs[h].stream = TRUE,
                         !.files = (obj.baseFilename :>
                                      Append(IF obj.baseFilename \in DOMAIN w.files
                                             THEN w.files[obj.baseFilename]
                                             ELSE <<>>, record)) @@ w.files]
        ELSE [got EXCEPT !.console = Append(@, record)]

RECURSIVE handleAll(_, _, _)
handleAll(w, hs, record) ==
    IF hs = <<>> THEN w
    ELSE handleAll(IF record.levelno >= w.handlerObjs[Head(hs)].level
                   THEN emit(w, Head(hs), record)
                   ELSE w,
                   Tail(hs), record)

\* Logger.callHandlers
callHandlers(w, name, record) ==
    LET hs == Flatten(w, Chain(w, name))
    IN  IF hs = <<>>
        THEN IF record.levelno >= 30
             THEN [w EXCEPT !.lastResort = Append(@, record)]
             ELSE w
        ELSE handleAll(w, hs, record)

\* Logger.log(level, msg): `src` is the SubLog object whose method emitted it
\* (0: none), kept with the record for the claims
log(w, name, levelno, msg, src) ==
    IF isEnabledFor(w, name, levelno)
    THEN callHandlers(w, name, [name |-> name, levelno |-> levelno,
                                msg |-> msg, src |-> src])
    ELSE w

\* logging.FileHandler(filename): opens (creates) the file for appending
FileHandler(w, filename, levelno) ==
    [w EXCEPT
       !.handlerObjs = Append(@, [kind |-> "FileHandler", baseFilename |-> filename,
                                  level |-> levelno, stream |-> TRUE,
                                  closed |-> FALSE, received |-> <<>>]),
       !.files = IF filename \in DOMAIN w.files
                 THEN w.files
                 ELSE (filename :> <<>>) @@ w.files]

\* RichHandler() / logging.StreamHandler()
StreamHandler(w, levelno) ==
    [w EXCEPT
       !.handlerObjs = Append(@, [kind |-> "StreamHandler", baseFilename |-> "",
                                  level |-> levelno, stream |-> TRUE,
                                  closed |-> FALSE, received |-> <<>>])]

\* Logger.addHandler: appended unless already there
addHandler(w, name, h) ==
    IF \E k \in DOMAIN w.loggerDict[name].handlers : w.loggerDict[name].handlers[k] = h
    THEN w
    ELSE [w EXCEPT !.loggerDict[name].handlers = Append(@, h)]

\* Logger.removeHandler
removeHandler(w, name, h) ==
    [w EXCEPT !.loggerDict[name].handlers = SelectSeq(@, LAMBDA x : x # h)]

\* Handler.close: a file handler closes its stream; any handler is marked closed
handlerClose(w, h) ==
    [w EXCEPT !.handlerObjs[h].closed = TRUE,
              !.handlerObjs[h].stream =
                  IF w.handlerObjs[h].kind = "FileHandler" THEN FALSE ELSE @]

----------------------------------------------------------------------------
(* src/fancylog/sublog.py *)

\* datetime.now().strftime(filename + "_%Y-%m-%d_%H-%M-%S")
strftime(filename, t) == filename \o "_T" \o ToString(t)

\* os.path.join(output_dir, filename + ".log")
join(output_dir, filename) == output_dir \o "/" \o filename

log_file(name, output_dir, timestamp, t) ==
    join(output_dir, (IF timestamp THEN strftime(name, t) ELSE name) \o ".log")

\* mutant: the parent name is left out of the channel name
sub_logger_name_no_parent(parent_logger_name, name) ==
    "fancylog.sublog." \o name

sub_logger_name(parent_logger_name, name) ==
    IF parent_logger_name # NoName
    THEN parent_logger_name \o ".sublog." \o name
    ELSE "fancylog.sublog." \o name

_parent_logger(parent_logger_name) ==
    IF parent_logger_name # NoName THEN parent_logger_name ELSE Root

\* mutant: the channel goes on propagating to its ancestors
resetLogger_propagating(w, name, levelno) ==
    [w EXCEPT !.loggerDict[name].handlers = <<>>,
              !.loggerDict[name].level = levelno]

\* mutant: the handlers already on the channel are kept
resetLogger_keep_handlers(w, name, levelno) ==
    [w EXCEPT !.loggerDict[name].propagate = FALSE,
              !.loggerDict[name].level = levelno]

\* mutant: the handlers already on the channel are closed as they are dropped
resetLogger_release(w, name, levelno) ==
    [w EXCEPT !.loggerDict[name].handlers = <<>>,
              !.loggerDict[name].propagate = FALSE,
              !.loggerDict[name].level = levelno,
              !.handlerObjs = [h \in DOMAIN w.handlerObjs |->
                  IF h \in {w.loggerDict[name].handlers[k] :
                               k \in DOMAIN w.loggerDict[name].handlers}
                  THEN [w.handlerObjs[h] EXCEPT !.closed = TRUE,
                          !.stream = IF w.handlerObjs[h].kind = "FileHandler"
                                     THEN FALSE ELSE @]
                  ELSE w.handlerObjs[h]]]

\* SubLog.__init__, lines 71-74: the channel is taken over
resetLogger(w, name, levelno) ==
    [w EXCEPT !.loggerDict[name].handlers = <<>>,
              !.loggerDict[name].propagate = FALSE,
              !.loggerDict[name].level = levelno]

\* SubLog.__init__, lines 83-97: the file sink, then the console sink if asked for
attachSinks(w, name, filename, levelno, log_to_console) ==
    LET w1 == FileHandler(w, filename, levelno)
        w2 == addHandler(w1, name, Len(w1.handlerObjs))
        w3 == StreamHandler(w2, 10)
    IN  IF log_to_console
        THEN addHandler(w3, name, Len(w3.handlerObjs))
        ELSE w2

StartingMsg(name, filename) ==
    "Starting sub-log '" \o name \o "', see " \o filename \o " for details"

StartedMsg(name) == "Sub-log '" \o name \o "' started"

FinishedMsg(name) == "Sub-log '" \o name \o "' finished"

SavedMsg(name, filename) ==
    "Sub-log '" \o name \o "' finished, log saved to " \o filename

\* SubLog.__init__, lines 99-108: the breadcrumb in the parent, then the
\* sub-log's own first message
\* mutant: the parent is set to INFO so that the breadcrumb gets through
startBreadcrumbs_set_level(w, self, i) ==
    LET w1 == getLogger(w, self._parent_logger)
        w2 == [w1 EXCEPT !.loggerDict[self._parent_logger].level = 20]
        w3 == log(w2, self._parent_logger, 20, StartingMsg(self.name, self.log_file), i)
    IN  log(w3, self.logger, 20, StartedMsg(self.name), i)

\* mutant: the two start messages are logged at WARNING
startBreadcrumbs_at_warning(w, self, i) ==
    LET w1 == getLogger(w, self._parent_logger)
        w2 == log(w1, self._parent_logger, 30, StartingMsg(self.name, self.log_file), i)
    IN  log(w2, self.logger, 30, StartedMsg(self.name), i)

startBreadcrumbs(w, self, i) ==
    LET w1 == getLogger(w, self._parent_logger)
        w2 == log(w1, self._parent_logger, 20, StartingMsg(self.name, self.log_file), i)
    IN  log(w2, self.logger, 20, StartedMsg(self.name), i)

\* The SubLog object __init__ builds
SubLogObject(name, output_dir, parent_logger_name, file_log_level, timestamp, t) ==
    [name |-> name,
     output_dir |-> output_dir,
     parent_logger_name |-> parent_logger_name,
     file_log_level |-> file_log_level,
     log_file |-> log_file(name, output_dir, timestamp, t),
     logger |-> sub_logger_name(parent_logger_name, name),
     _parent_logger |-> _parent_logger(parent_logger_name)]

\* mutant: the file is opened before the channel is touched
SubLogInit_open_first(w, i, self, log_to_console, open_ok) ==
    LET levelno == LevelNo(self.file_log_level)
        w1 == resetLogger(getLogger(w, self.logger), self.logger, levelno)
        w2 == attachSinks(w1, self.logger, self.log_file, levelno, log_to_console)
    IN  IF open_ok
        THEN [w |-> startBreadcrumbs(w2, self, i), raised |-> ""]
        ELSE [w |-> w, raised |-> "OSError"]

\* SubLog.__init__ on object number i; open_ok: whether the file can be opened.
\* Gives the world after the call and what the call raised ("" when it returned).
SubLogInit(w, i, self, log_to_console, open_ok) ==
    LET levelno == LevelNo(self.file_log_level)
        w1 == resetLogger(getLogger(w, self.logger), self.logger, levelno)
        w2 == attachSinks(w1, self.logger, self.log_file, levelno, log_to_console)
    IN  IF open_ok
        THEN [w |-> startBreadcrumbs(w2, self, i), raised |-> ""]
        ELSE [w |-> w1, raised |-> "OSError"]

\* mutant: the handlers are detached and never closed
releaseSinks_detach_only(w, name, hs, failing) ==
    [w |-> [w EXCEPT !.loggerDict[name].handlers = <<>>], raised |-> ""]

\* mutant: releasing an empty handler list is an error
releaseSinks_empty_raises(w, name, hs, failing) ==
    IF hs = <<>>
    THEN [w |-> w, raised |-> "IndexError"]
    ELSE [w |-> [w EXCEPT !.loggerDict[name].handlers = <<>>,
                          !.handlerObjs = [h \in DOMAIN w.handlerObjs |->
                              IF h \in {hs[k] : k \in DOMAIN hs}
                              THEN [w.handlerObjs[h] EXCEPT !.closed = TRUE,
                                                            !.stream = FALSE]
                              ELSE w.handlerObjs[h]]],
          raised |-> ""]

\* mutant: close() releases the handlers of every channel
releaseSinks_every_channel(w, name, hs, failing) ==
    [w |-> [w EXCEPT !.loggerDict = [n \in DOMAIN w.loggerDict |->
                                        [w.loggerDict[n] EXCEPT !.handlers = <<>>]],
                     !.handlerObjs = [h \in DOMAIN w.handlerObjs |->
                                         [w.handlerObjs[h] EXCEPT !.closed = TRUE,
                                                                  !.stream = FALSE]]],
     raised |-> ""]

\* SubLog.close, lines 114-116: each sink is closed, then detached; a close()
\* that raises (failing: the handlers whose close raises) leaves the loop
RECURSIVE releaseSinks(_, _, _, _)
releaseSinks(w, name, hs, failing) ==
    IF hs = <<>> THEN [w |-> w, raised |-> ""]
    ELSE IF Head(hs) \in failing
    THEN [w |-> handlerClose(w, Head(hs)), raised |-> "OSError"]
    ELSE releaseSinks(removeHandler(handlerClose(w, Head(hs)), name, Head(hs)),
                      name, Tail(hs), failing)

\* SubLog.close
close(w, i, self, failing) ==
    LET w1 == log(w, self.logger, 20, FinishedMsg(self.name), i)
        r == releaseSinks(w1, self.logger, w1.loggerDict[self.logger].handlers, failing)
    IN  IF r.raised # ""
        THEN r
        ELSE [w |-> log(r.w, self._parent_logger, 20,
                        SavedMsg(self.name, self.log_file), i),
              raised |-> ""]

\* mutant: the start messages are logged before the sinks are attached
InitSteps_messages_first == <<"reset", "starting", "started", "file", "console">>

\* SubLog.__init__ statement by statement: lines 71-74, 83-86, 88-97, 99-106, 108
InitSteps == <<"reset", "file", "console", "starting", "started">>

\* mutant: the sinks are released before the finished message is logged
CloseSteps_release_first == <<"release", "finished", "saved">>

\* SubLog.close statement by statement: line 112, lines 114-116, lines 118-122
CloseSteps == <<"finished", "release", "saved">>

\* one of these statements, run on SubLog object i
SubLogStep(w, i, self, step, log_to_console) ==
    LET levelno == LevelNo(self.file_log_level)
        fh == FileHandler(w, self.log_file, levelno)
        ch == StreamHandler(w, 10)
    IN  CASE step = "reset" ->
                resetLogger(getLogger(w, self.logger), self.logger, levelno)
          [] step = "file" -> addHandler(fh, self.logger, Len(fh.handlerObjs))
          [] step = "console" ->
                IF log_to_console
                THEN addHandler(ch, self.logger, Len(ch.handlerObjs))
                ELSE w
          [] step = "starting" ->
                log(getLogger(w, self._parent_logger), self._parent_logger, 20,
                    StartingMsg(self.name, self.log_file), i)
          [] step = "started" -> log(w, self.logger, 20, StartedMsg(self.name), i)
          [] step = "finished" -> log(w, self.logger, 20, FinishedMsg(self.name), i)
          [] step = "release" ->
                releaseSinks(w, self.logger, w.loggerDict[self.logger].handlers, {}).w
          [] step = "saved" ->
                log(w, self._parent_logger, 20, SavedMsg(self.name, self.log_file), i)

\* the statements run one after the other with nothing in between
RECURSIVE RunSteps(_, _, _, _, _)
RunSteps(w, i, self, steps, log_to_console) ==
    IF steps = <<>> THEN w
    ELSE RunSteps(SubLogStep(w, i, self, Head(steps), log_to_console),
                  i, self, Tail(steps), log_to_console)

\* str.strip().splitlines() on the captured text, held as its lines: the
\* blank lines at either end go, and so do the spaces before the first line
\* left and after the last
RECURSIVE IsSpace(_)
IsSpace(text) ==
    text = "" \/ (SubSeq(text, 1, 1) = " " /\ IsSpace(SubSeq(text, 2, Len(text))))

RECURSIVE lstripText(_)
lstripText(text) ==
    IF text # "" /\ SubSeq(text, 1, 1) = " "
    THEN lstripText(SubSeq(text, 2, Len(text)))
    ELSE text

RECURSIVE rstripText(_)
rstripText(text) ==
    IF text # "" /\ SubSeq(text, Len(text), Len(text)) = " "
    THEN rstripText(SubSeq(text, 1, Len(text) - 1))
    ELSE text

RECURSIVE lstrip(_)
lstrip(lines) ==
    IF lines = <<>> THEN <<>>
    ELSE IF IsSpace(Head(lines)) THEN lstrip(Tail(lines))
    ELSE <<lstripText(Head(lines))>> \o Tail(lines)

RECURSIVE rstrip(_)
rstrip(lines) ==
    IF lines = <<>> THEN <<>>
    ELSE IF IsSpace(lines[Len(lines)]) THEN rstrip(SubSeq(lines, 1, Len(lines) - 1))
    ELSE SubSeq(lines, 1, Len(lines) - 1) \o <<rstripText(lines[Len(lines)])>>

splitlines(lines) == rstrip(lstrip(lines))

\* for line in ...: self.logger.info/warning(prefix + line): the calls made
Prefixed(levelno, prefix, lines) ==
    [k \in DOMAIN lines |-> [levelno |-> levelno, msg |-> prefix \o lines[k]]]

RECURSIVE logAll(_, _, _, _)
logAll(w, name, calls, i) ==
    IF calls = <<>> THEN w
    ELSE logAll(log(w, name, Head(calls).levelno, Head(calls).msg, i),
                name, Tail(calls), i)

\* mutant: the stderr lines are logged before the stdout lines
run_subprocess_stderr_first(w, i, self, command, stdout, stderr, returncode, check) ==
    LET first == <<[levelno |-> 20, msg |-> "Running command: " \o command]>>
        emitted == first
                     \o Prefixed(30, "[stderr] ", splitlines(stderr))
                     \o Prefixed(20, "[stdout] ", splitlines(stdout))
                     \o <<[levelno |-> 20,
                           msg |-> "Command finished with return code "
                                       \o ToString(returncode)]>>
    IN  IF check /\ returncode # 0
        THEN [w |-> logAll(w, self.logger, first, i), raised |-> "CalledProcessError",
              emitted |-> first, returned |-> <<>>]
        ELSE [w |-> logAll(w, self.logger, emitted, i), raised |-> "",
              emitted |-> emitted,
              returned |-> <<[returncode |-> returncode, stdout |-> stdout,
                              stderr |-> stderr]>>]

\* SubLog.run_subprocess: the command ran and gave (stdout, stderr, returncode),
\* the two texts held as their lines; check: the caller passed check=True
\* through **kwargs, and subprocess.run raises on a non-zero exit.
\* emitted: the logging calls made on the channel, in order; returned: the
\* CompletedProcess returned, if any
run_subprocess(w, i, self, command, stdout, stderr, returncode, check) ==
    LET first == <<[levelno |-> 20, msg |-> "Running command: " \o command]>>
        emitted == first
                     \o Prefixed(20, "[stdout] ", splitlines(stdout))
                     \o Prefixed(30, "[stderr] ", splitlines(stderr))
                     \o <<[levelno |-> 20,
                           msg |-> "Command finished with return code "
                                       \o ToString(returncode)]>>
    IN  IF check /\ returncode # 0
        THEN [w |-> logAll(w, self.logger, first, i), raised |-> "CalledProcessError",
              emitted |-> first, returned |-> <<>>]
        ELSE [w |-> logAll(w, self.logger, emitted, i), raised |-> "",
              emitted |-> emitted,
              returned |-> <<[returncode |-> returncode, stdout |-> stdout,
                              stderr |-> stderr]>>]

\* mutant: no try/finally, so a block that raises skips sl.close()
sub_log_exit_no_finally(w, i, self, exc, failing) ==
    IF exc # ""
    THEN [w |-> w, raised |-> exc, closes |-> 0]
    ELSE [w |-> close(w, i, self, failing).w, raised |-> "", closes |-> 1]

\* sub_log, lines 215-218: the with block ended, raising exc ("" when it ended
\* normally or by return/break); the finally clause runs sl.close(), and what
\* the block raised goes on to the caller unless close() itself raised.
\* closes: the close() calls made.
sub_log_exit(w, i, self, exc, failing) ==
    LET r == close(w, i, self, failing)
    IN  [w |-> r.w, raised |-> IF r.raised # "" THEN r.raised ELSE exc, closes |-> 1]

----------------------------------------------------------------------------
(* src/fancylog/fancylog.py *)

\* What the interpreter and the machine answer to the header writer. git: what
\* get_git_info gives for the directory of the package ("ok", or one of the two
\* errors of tools/git.py); packages: which listing write_environment_packages
\* takes; version: the package has __version__; mp_found:
\* multiprocessing_logging can be imported
GitOutcomes == {"ok", "GitPythonError", "GitEnvironmentError"}

DefaultEnv == [git |-> "ok", packages |-> "conda", version |-> TRUE, mp_found |-> TRUE]

AllToggles ==
    [write_header |-> TRUE, write_git |-> TRUE, write_cli_args |-> TRUE,
     write_python |-> TRUE, write_env_packages |-> TRUE, write_variables |-> TRUE]

\* variables=None
NoVariables == [kind |-> "None", fields |-> <<>>, items |-> <<>>]

\* self.file.write(text): a header file is held as the texts written to it, in
\* the record shape of the lines the handlers write
write(w, file, text) ==
    [w EXCEPT !.files[file] = Append(@, [name |-> "", levelno |-> 0,
                                         msg |-> text, src |-> 0])]

\* open(file, "w"): the file is created, or emptied
open_w(w, file) == [w EXCEPT !.files = (file :> <<>>) @@ w.files]

write_separator(w, file, separator) == write(w, file, separator)

Banner(section_header) == "**************  " \o section_header \o "  **************"

write_section_header(w, file, section_header) ==
    write(w, file, Banner(section_header))

write_separated_section_header(w, file, section_header, top_sep, bottom_separator) ==
    LET w1 == IF top_sep THEN write_separator(w, file, "\n\n") ELSE w
        w2 == write_section_header(w1, file, section_header)
    IN  write_separator(w2, file, bottom_separator)

write_log_header(w, file, output_dir, log_header, t, env) ==
    LET w1 == write_separated_section_header(w, file, log_header, FALSE, "\n\n")
        w2 == write(w1, file, "Ran at : " \o strftime("", t) \o "\n")
        w3 == write(w2, file, "Output directory: " \o output_dir \o "\n")
        w4 == write(w3, file, "Current directory: cwd\n")
    IN  IF env.version THEN write(w4, file, "Version: 1.0") ELSE w4

GitPythonLine ==
    "Gitpython is not installed. Cannot check if software is in a git repository"

GitEnvironmentLine ==
    "Software does not appear to be in a git repository. "
        \o "Perhaps it was installed in some other way?"

CommitLines ==
    <<"Commit hash: abc \n", "Commit message: msg \n",
      "Commit date & time: Date: 2026-01-01, Time: 00-00-00 \n",
      "Commit author: me \n", "Commit author email: me@x">>

RECURSIVE writeAll(_, _, _)
writeAll(w, file, texts) ==
    IF texts = <<>> THEN w
    ELSE writeAll(write(w, file, Head(texts)), file, Tail(texts))

\* mutant: GitEnvironmentError is not caught
write_git_info_uncaught(w, file, program, env) ==
    LET w1 == write_separated_section_header(w, file, "GIT INFO", TRUE, "\n\n")
    IN  IF env.git = "GitPythonError"
        THEN [w |-> write(w1, file, GitPythonLine), raised |-> ""]
        ELSE IF env.git = "GitEnvironmentError"
        THEN [w |-> w1, raised |-> "GitEnvironmentError"]
        ELSE [w |-> writeAll(w1, file, CommitLines), raised |-> ""]

\* write_git_info: `program` is a package, whose directory find_spec gives
write_git_info(w, file, program, env) ==
    LET w1 == write_separated_section_header(w, file, "GIT INFO", TRUE, "\n\n")
    IN  IF env.git = "GitPythonError"
        THEN [w |-> write(w1, file, GitPythonLine), raised |-> ""]
        ELSE IF env.git = "GitEnvironmentError"
        THEN [w |-> write(w1, file, GitEnvironmentLine), raised |-> ""]
        ELSE [w |-> writeAll(w1, file, CommitLines), raised |-> ""]

write_command_line_arguments(w, file) ==
    LET w1 == write_separated_section_header(w, file, "COMMAND LINE ARGUMENTS",
                                             TRUE, "\n\n")
    IN  write(write(w1, file, "Command: prog \n"), file, "Input arguments: []")

write_python_version(w, file) ==
    LET w1 == write_separated_section_header(w, file, "PYTHON VERSION", TRUE, "\n\n")
    IN  write(w1, file, "Python version: 3")

\* one listed package
write_packages(w, file) ==
    write(write(w, file, "Name                 Version        \n"), file,
          "pkg                  1.0            \n")

write_environment_packages(w, file, env) ==
    LET w1 == write_separated_section_header(w, file, "ENVIRONMENT", TRUE, "\n\n")
    IN  IF env.packages = "conda"
        THEN write_packages(writeAll(w1, file, <<"Conda environment: base\n\n",
                                                 "Environment packages (conda):\n">>),
                            file)
        ELSE IF env.packages = "venv"
        THEN LET w2 == writeAll(w1, file,
                          <<"No conda environment found, reporting pip packages\n\n",
                            "Local environment packages (pip):\n">>)
                 w3 == write(write_packages(w2, file), file, "\n")
             IN  write_packages(write(w3, file, "Global environment packages (pip):\n"),
                                file)
        ELSE write_packages(write(w1, file,
                   "No environment found, reporting global pip packages\n\n"), file)

\* f"{attr}: {value}\n"
KeyValue(attr, value) == attr \o ": " \o value \o "\n"

\* mutant: no value is taken for an object of the collection
InCollection_never(value, variable_objects) == FALSE

\* `value not in variable_objects`: a value is held with ref, the place in the
\* collection of the object it is (0: it is none of them), and its text
InCollection(value, variable_objects) == value.ref \in DOMAIN variable_objects.items

RECURSIVE writeAttrs(_, _, _, _)
writeAttrs(w, file, attrs, variable_objects) ==
    IF attrs = <<>> THEN w
    ELSE writeAttrs(IF InCollection(Head(attrs).value, variable_objects)
                    THEN w
                    ELSE write(w, file, KeyValue(Head(attrs).key,
                                                 Head(attrs).value.text)),
                    file, Tail(attrs), variable_objects)

\* the loop of write_variables_from_object_list from the k-th object on; an
\* object without __dict__ raises AttributeError
RECURSIVE writeObjects(_, _, _, _)
writeObjects(w, file, variable_objects, k) ==
    IF k > Len(variable_objects.items) THEN [w |-> w, raised |-> ""]
    ELSE LET obj == variable_objects.items[k]
             w1 == write(w, file, "\n" \o obj.cls \o ":\n")
         IN  IF ~obj.has_dict
             THEN [w |-> w1, raised |-> "AttributeError"]
             ELSE writeObjects(writeAttrs(w1, file, obj.attrs, variable_objects),
                               file, variable_objects, k + 1)

write_variables_from_object_list(w, file, variable_objects) ==
    writeObjects(w, file, variable_objects, 1)

RECURSIVE writeFields(_, _, _, _)
writeFields(w, file, variable_objects, k) ==
    IF k > Len(variable_objects.items) THEN w
    ELSE writeFields(write(w, file, KeyValue(variable_objects.fields[k],
                                             variable_objects.items[k].text)),
                     file, variable_objects, k + 1)

\* variable_objects._asdict() is asked of the collection itself: a list has none
write_variables_from_slot_type_list(w, file, variable_objects) ==
    IF variable_objects.kind = "namedtuple"
    THEN [w |-> writeFields(w, file, variable_objects, 1), raised |-> ""]
    ELSE [w |-> w, raised |-> "AttributeError"]

write_variables(w, file, variable_objects) ==
    LET w1 == write_separated_section_header(w, file, "VARIABLES", TRUE, "\n")
        r == IF variable_objects.items[1].has_dict
             THEN write_variables_from_object_list(w1, file, variable_objects)
             ELSE write_variables_from_slot_type_list(w1, file, variable_objects)
    IN  IF r.raised # "" THEN r
        ELSE [w |-> write_separated_section_header(r.w, file, "LOGGING", TRUE, "\n\n"),
              raised |-> ""]

\* mutant: the git section is written whatever write_git says
LoggingHeader_always_git(w, file, program, variable_objects, output_dir, toggles, log_header, t, env) ==
    LET w0 == open_w(w, file)
        w1 == IF toggles.write_header
              THEN write_log_header(w0, file, output_dir, log_header, t, env)
              ELSE w0
        g == write_git_info(w1, file, program, env)
        w3 == IF toggles.write_cli_args
              THEN write_command_line_arguments(g.w, file)
              ELSE g.w
        w4 == IF toggles.write_python THEN write_python_version(w3, file) ELSE w3
        w5 == IF toggles.write_env_packages
              THEN write_environment_packages(w4, file, env)
              ELSE w4
    IN  IF g.raised # "" THEN g
        ELSE IF toggles.write_variables /\ variable_objects.items # <<>>
        THEN write_variables(w5, file, variable_objects)
        ELSE [w |-> w5, raised |-> ""]

\* LoggingHeader.__init__: open(file, "w") truncates, then the sections chosen
\* are written in turn; an error in one of them leaves the file as it is then
LoggingHeader(w, file, program, variable_objects, output_dir, toggles, log_header, t, env) ==
    LET w0 == open_w(w, file)
        w1 == IF toggles.write_header
              THEN write_log_header(w0, file, output_dir, log_header, t, env)
              ELSE w0
        g == IF toggles.write_git
             THEN write_git_info(w1, file, program, env)
             ELSE [w |-> w1, raised |-> ""]
        w3 == IF toggles.write_cli_args
              THEN write_command_line_arguments(g.w, file)
              ELSE g.w
        w4 == IF toggles.write_python THEN write_python_version(w3, file) ELSE w3
        w5 == IF toggles.write_env_packages
              THEN write_environment_packages(w4, file, env)
              ELSE w4
    IN  IF g.raised # "" THEN g
        ELSE IF toggles.write_variables /\ variable_objects.items # <<>>
        THEN write_variables(w5, file, variable_objects)
        ELSE [w |-> w5, raised |-> ""]

\* mutant: the handlers of a named channel are kept
initialise_logger_keep_handlers(w, filename, print_level, file_level, log_to_console, logger_name) ==
    LET name == IF logger_name # NoName THEN logger_name ELSE Root
        w1 == IF logger_name # NoName
              THEN [getLogger(w, name) EXCEPT !.loggerDict[name].propagate = FALSE]
              ELSE w
        w2 == [w1 EXCEPT !.loggerDict[name].level = LevelNo(file_level)]
        w3 == IF filename # NoName
              THEN LET f == FileHandler(w2, filename, LevelNo(file_level))
                   IN  addHandler(f, name, Len(f.handlerObjs))
              ELSE w2
    IN  IF log_to_console
        THEN LET c == StreamHandler(w3, LevelNo(print_level))
             IN  addHandler(c, name, Len(c.handlerObjs))
        ELSE w3

\* mutant: the root channel is cleared like a named one
initialise_logger_clear_root(w, filename, print_level, file_level, log_to_console, logger_name) ==
    LET name == IF logger_name # NoName THEN logger_name ELSE Root
        w1 == [getLogger(w, name) EXCEPT !.loggerDict[name].handlers = <<>>,
                                         !.loggerDict[name].propagate = FALSE]
        w2 == [w1 EXCEPT !.loggerDict[name].level = LevelNo(file_level)]
        w3 == IF filename # NoName
              THEN LET f == FileHandler(w2, filename, LevelNo(file_level))
                   IN  addHandler(f, name, Len(f.handlerObjs))
              ELSE w2
    IN  IF log_to_console
        THEN LET c == StreamHandler(w3, LevelNo(print_level))
             IN  addHandler(c, name, Len(c.handlerObjs))
        ELSE w3

\* initialise_logger
initialise_logger(w, filename, print_level, file_level, log_to_console, logger_name) ==
    LET name == IF logger_name # NoName THEN logger_name ELSE Root
        w1 == IF logger_name # NoName
              THEN [getLogger(w, name) EXCEPT !.loggerDict[name].handlers = <<>>,
                                              !.loggerDict[name].propagate = FALSE]
              ELSE w
        w2 == [w1 EXCEPT !.loggerDict[name].level = LevelNo(file_level)]
        w3 == IF filename # NoName
              THEN LET f == FileHandler(w2, filename, LevelNo(file_level))
                   IN  addHandler(f, name, Len(f.handlerObjs))
              ELSE w2
    IN  IF log_to_console
        THEN LET c == StreamHandler(w3, LevelNo(print_level))
             IN  addHandler(c, name, Len(c.handlerObjs))
        ELSE w3

\* the text of the ValueError of setup_logging, as its three literals join (a
\* backquote of the source is written ' here)
MultiprocessingMessage ==
    "'multiprocessing_aware' is not supported" \o "with 'logger_name'. Multiprocess logging"
        \o "must be performed with the root logger."

\* mutant: a named channel is let through to the multiprocessing set-up
setup_logging_no_check(w, filename, print_level, file_level, multiprocessing_aware, log_to_console, logger_name, env) ==
    LET w1 == initialise_logger(w, filename, print_level, file_level,
                                log_to_console, logger_name)
        name == IF logger_name # NoName THEN logger_name ELSE Root
    IN  IF multiprocessing_aware
        THEN [w |-> log(log(w1, Root, 20, "Starting logging", 0), Root, 20,
                        "Multiprocessing-logging module found. Logging from all"
                            \o " processes", 0),
              raised |-> "", message |-> ""]
        ELSE [w |-> log(log(w1, name, 20, "Starting logging", 0), name, 20,
                        "Not logging multiple processes", 0),
              raised |-> "", message |-> ""]

\* mutant: the arguments are checked before the channel is touched
setup_logging_check_first(w, filename, print_level, file_level, multiprocessing_aware, log_to_console, logger_name, env) ==
    IF multiprocessing_aware /\ logger_name # NoName
    THEN [w |-> w, raised |-> "ValueError", message |-> MultiprocessingMessage]
    ELSE setup_logging_no_check(w, filename, print_level, file_level,
                                multiprocessing_aware, log_to_console, logger_name, env)

\* setup_logging. multiprocessing_logging.install_mp_handler() wraps the root
\* handlers in place; a wrapped handler stands for itself here
setup_logging(w, filename, print_level, file_level, multiprocessing_aware, log_to_console, logger_name, env) ==
    LET w1 == initialise_logger(w, filename, print_level, file_level,
                                log_to_console, logger_name)
        name == IF logger_name # NoName THEN logger_name ELSE Root
    IN  IF multiprocessing_aware
        THEN IF logger_name # NoName
             THEN [w |-> w1, raised |-> "ValueError", message |-> MultiprocessingMessage]
             ELSE [w |-> log(log(w1, Root, 20, "Starting logging", 0), Root, 20,
                             IF env.mp_found
                             THEN "Multiprocessing-logging module found. Logging from all"
                                      \o " processes"
                             ELSE "Multiprocessing-logging module not found, not logging "
                                      \o "multiple processes.", 0),
                   raised |-> "", message |-> ""]
        ELSE [w |-> log(log(w1, name, 20, "Starting logging", 0), name, 20,
                        "Not logging multiple processes", 0),
              raised |-> "", message |-> ""]

\* A package argument: a package, or no argument at all (kind "missing")
Package(name) == [kind |-> "package", __name__ |-> name]

\* start_logging (filename is left at its default, None). A call without the
\* required `package` argument does not bind: TypeError, before the body runs.
\* returned: the path of the log file, NoName for None
start_logging(w, output_dir, package, variables, verbose, file_log_level, log_header, multiprocessing_aware, toggles, log_to_file, log_to_console, timestamp, logger_name, t, env) ==
    LET print_log_level == IF verbose THEN "DEBUG" ELSE "INFO"
        logging_file == IF log_to_file
                        THEN log_file(package.__name__, output_dir, timestamp, t)
                        ELSE NoName
        h == IF logging_file # NoName
             THEN LoggingHeader(w, logging_file, package, variables, output_dir,
                                toggles, log_header, t, env)
             ELSE [w |-> w, raised |-> ""]
        r == setup_logging(h.w, logging_file, print_log_level, file_log_level,
                           multiprocessing_aware, log_to_console, logger_name, env)
    IN  IF package.kind = "missing"
        THEN [w |-> w, raised |-> "TypeError", message |-> "", returned |-> NoName]
        ELSE IF h.raised # ""
        THEN [w |-> h.w, raised |-> h.raised, message |-> "", returned |-> NoName]
        ELSE [w |-> r.w, raised |-> r.raised, message |-> r.message,
              returned |-> IF r.raised = "" THEN logging_file ELSE NoName]

----------------------------------------------------------------------------
(* The state machine: one action per call a program makes *)

\* logging at import: the root logger alone, at WARNING, with no handler
Init ==
    /\ loggerDict = (Root :> [handlers |-> <<>>, propagate |-> TRUE, level |-> 30])
    /\ handlerObjs = <<>>
    /\ files = <<>>
    /\ console = <<>>
    /\ lastResort = <<>>
    /\ sublogs = <<>>
    /\ life = <<>>
    /\ now = 0
    /\ sessions = 0
    /\ result = [op |-> "import", self |-> 0, raised |-> "", failing |-> {}]

Install(w) ==
    /\ loggerDict' = w.loggerDict
    /\ handlerObjs' = w.handlerObjs
    /\ files' = w.files
    /\ console' = w.console
    /\ lastResort' = w.lastResort

Objects == 1 .. Len(sublogs)

Range(seq) == {seq[k] : k \in DOMAIN seq}

SinksOf(w, name) == w.loggerDict[name].handlers

\* Bookkeeping per SubLog. ctx: "" (built by the constructor), "block" (inside
\* the with block of sub_log) or "exited"; args: what the constructor was called
\* with; sinks: the handlers it attached; calls, closes: caller operations and
\* close() calls made; exits: close() calls made by the wrapper; exc: what the
\* with block raised; sent: the caller's log calls, each with its level and
\* whether the SubLog's file handler was on its channel at that time
NewLife(ctx, args, sinks) ==
    [ctx |-> ctx, args |-> args, sinks |-> sinks, calls |-> 0, closes |-> 0,
     exits |-> 0, exc |-> "", sent |-> <<>>]

\* datetime.now(): the clock never runs backwards
Clock(timestamp) == IF timestamp THEN now .. MaxClock ELSE {now}

\* sl = SubLog(name, output_dir, parent_logger_name, file_log_level,
\*             log_to_console, timestamp)
Construct(op, ctx, a, t, open_ok, max) ==
    /\ Len(sublogs) < max
    /\ LET i == Len(sublogs) + 1
           self == SubLogObject(a.name, a.output_dir, a.parent_logger_name,
                                a.file_log_level, a.timestamp, t)
           r == SubLogInit(World, i, self, a.log_to_console, open_ok)
       IN  /\ Install(r.w)
           /\ result' = [op |-> op, self |-> IF r.raised = "" THEN i ELSE 0,
                         raised |-> r.raised, failing |-> {}]
           /\ IF r.raised = ""
              THEN /\ sublogs' = Append(sublogs, self)
                   /\ life' = Append(life, NewLife(ctx, a, SinksOf(r.w, self.logger)))
              ELSE UNCHANGED <<sublogs, life>>
    /\ now' = t
    /\ UNCHANGED sessions

NewSubLog ==
    \E a \in SubLogArgs : \E t \in Clock(a.timestamp) :
        Construct("SubLog", "", a, t, TRUE, MaxSubLogs)

\* with sub_log(...) as sl:   -- the wrapper up to its yield
EnterSubLog ==
    \E a \in SubLogArgs : \E t \in Clock(a.timestamp) :
        Construct("sub_log", "block", a, t, TRUE, MaxSubLogs)

\* sl.close(), called by the program
Closing(i, failing) ==
    LET r == close(World, i, sublogs[i], failing)
    IN  /\ Install(r.w)
        /\ life' = [life EXCEPT ![i].closes = @ + 1]
        /\ result' = [op |-> "close", self |-> i, raised |-> r.raised,
                      failing |-> failing]
        /\ UNCHANGED <<sublogs, now, sessions>>

Close ==
    \E i \in Objects :
        /\ life[i].closes < MaxClose
        /\ Closing(i, {})

\* the with block of sub_log ends, raising exc or nothing
Exiting(i, exc, failing) ==
    LET r == sub_log_exit(World, i, sublogs[i], exc, failing)
    IN  /\ Install(r.w)
        /\ life' = [life EXCEPT ![i].closes = @ + r.closes,
                                ![i].exits = @ + r.closes,
                                ![i].ctx = "exited",
                                ![i].exc = exc]
        /\ result' = [op |-> "exit", self |-> i, raised |-> r.raised,
                      failing |-> failing]
        /\ UNCHANGED <<sublogs, now, sessions>>

ExitSubLog ==
    \E i \in Objects, exc \in {"", "ValueError"} :
        /\ life[i].ctx = "block"
        /\ Exiting(i, exc, {})

\* the file handler SubLog i made is on SubLog i's channel
Attached(i) == life[i].sinks[1] \in Range(loggerDict[sublogs[i].logger].handlers)

\* sl.logger.debug/info/warning("sentinel"), called by the program
LoggerLog ==
    \E i \in Objects, levelno \in {20, 30} :
        /\ life[i].calls < MaxCalls
        /\ Install(log(World, sublogs[i].logger, levelno, "sentinel", i))
        /\ life' = [life EXCEPT ![i].calls = @ + 1,
                                ![i].sent = Append(@, [levelno |-> levelno,
                                                       attached |-> Attached(i)])]
        /\ result' = [op |-> "log", self |-> i, raised |-> "", failing |-> {}]
        /\ UNCHANGED <<sublogs, now, sessions>>

\* sl.run_subprocess(command, **kwargs)
RunSubprocessFrom(args) ==
    \E i \in Objects, a \in args :
        /\ life[i].calls < MaxCalls
        /\ LET r == run_subprocess(World, i, sublogs[i], "cmd", a.stdout, a.stderr,
                                   a.returncode, a.check)
           IN  /\ Install(r.w)
               /\ result' = [op |-> "run_subprocess", self |-> i,
                             raised |-> r.raised, failing |-> {}, args |-> a,
                             emitted |-> r.emitted, returned |-> r.returned]
        /\ life' = [life EXCEPT ![i].calls = @ + 1]
        /\ UNCHANGED <<sublogs, now, sessions>>

RunSubprocess == RunSubprocessFrom(RunArgs)

\* sl.logger.addHandler(logging.StreamHandler()), called by the program
AddHandler ==
    \E i \in Objects :
        /\ life[i].calls < MaxCalls
        /\ LET w1 == StreamHandler(World, 0)
           IN  Install(addHandler(w1, sublogs[i].logger, Len(w1.handlerObjs)))
        /\ life' = [life EXCEPT ![i].calls = @ + 1]
        /\ result' = [op |-> "addHandler", self |-> i, raised |-> "", failing |-> {}]
        /\ UNCHANGED <<sublogs, now, sessions>>

\* fancylog.start_logging(output_dir, fancylog, ...)
StartLoggingFrom(args) ==
    \E a \in args : \E t \in Clock(a.log_to_file /\ a.timestamp) :
        /\ sessions < MaxSessions
        /\ \E r \in {start_logging(World, "out", Package("fancylog"), NoVariables, TRUE,
                                   a.file_log_level, "LOG", a.multiprocessing_aware,
                                   AllToggles, a.log_to_file, a.log_to_console,
                                   a.timestamp, a.logger_name, t, DefaultEnv)} :
               /\ Install(r.w)
               /\ result' = [op |-> "start_logging", self |-> 0,
                             raised |-> r.raised, failing |-> {}]
        /\ sessions' = sessions + 1
        /\ now' = t
        /\ UNCHANGED <<sublogs, life>>

StartLogging == StartLoggingFrom(SessionArgs)

Next ==
    \/ NewSubLog
    \/ EnterSubLog
    \/ Close
    \/ ExitSubLog
    \/ LoggerLog
    \/ RunSubprocess
    \/ AddHandler
    \/ StartLogging

Spec == Init /\ [][Next]_vars

----------------------------------------------------------------------------
(* Two SubLog objects alive together: the channel registry is shared *)

PairArgs ==
    [name : {"a"}, output_dir : OutputDirs, parent_logger_name : ParentNames,
     file_log_level : {"DEBUG"}, log_to_console : BOOLEAN, timestamp : {FALSE}]

PairNew ==
    \E a \in PairArgs : Construct("SubLog", "", a, now, TRUE, MaxPair)

NextPair ==
    \/ PairNew
    \/ Close
    \/ LoggerLog
    \/ AddHandler

SpecPair == Init /\ [][NextPair]_vars

----------------------------------------------------------------------------
(* The operating system fails: a log file cannot be opened, a handler's
   close() raises *)

FaultSessions ==
    [logger_name : ParentNames, file_log_level : {"DEBUG"}, log_to_file : {TRUE},
     log_to_console : {FALSE}, multiprocessing_aware : {FALSE}, timestamp : {FALSE}]

FaultStartLogging == StartLoggingFrom(FaultSessions)

FaultNew ==
    \E a \in PairArgs, open_ok \in BOOLEAN :
        Construct("SubLog", "", a, now, open_ok, MaxSubLogs)

FaultEnter ==
    \E a \in PairArgs, open_ok \in BOOLEAN :
        Construct("sub_log", "block", a, now, open_ok, MaxSubLogs)

\* sl.close() where the close() of some of the channel's handlers raises
FaultClose ==
    \E i \in Objects :
        \E failing \in SUBSET Range(loggerDict[sublogs[i].logger].handlers) :
            /\ life[i].closes < MaxClose
            /\ Closing(i, failing)

FaultExit ==
    \E i \in Objects, exc \in {"", "ValueError"} :
        \E failing \in SUBSET Range(loggerDict[sublogs[i].logger].handlers) :
            /\ life[i].ctx = "block"
            /\ Exiting(i, exc, failing)

NextFault ==
    \/ FaultStartLogging
    \/ FaultNew
    \/ FaultEnter
    \/ FaultClose
    \/ FaultExit
    \/ LoggerLog
    \/ AddHandler

SpecFault == Init /\ [][NextFault]_vars

----------------------------------------------------------------------------
(* Sessions: a program calls start_logging again and again, on the root
   channel or on the channel "main", and logs on either *)

NoPackage == [kind |-> "missing", __name__ |-> ""]

StartArgs ==
    [logger_name : ParentNames, log_to_file : BOOLEAN, log_to_console : BOOLEAN,
     multiprocessing_aware : BOOLEAN, package : {Package("fancylog"), NoPackage}]

\* fancylog.start_logging("out", package, ...), or fancylog.start_logging("out")
SessionStart ==
    \E a \in StartArgs, mp_found \in BOOLEAN :
        /\ sessions < MaxStarts
        /\ a.multiprocessing_aware \/ mp_found
        /\ \E r \in {start_logging(World, "out", a.package, NoVariables, TRUE, "DEBUG",
                                   "LOG", a.multiprocessing_aware, AllToggles,
                                   a.log_to_file, a.log_to_console, FALSE,
                                   a.logger_name, now,
                                   [DefaultEnv EXCEPT !.mp_found = mp_found])} :
               /\ Install(r.w)
               /\ result' = [op |-> "start_logging", self |-> 0, raised |-> r.raised,
                             failing |-> {}, message |-> r.message,
                             returned |-> r.returned, args |-> a]
        /\ sessions' = sessions + 1
        /\ UNCHANGED <<sublogs, life, now>>

\* logging.getLogger(name).warning("app"), once after a start_logging call
SessionLog ==
    \E name \in {Root, "main"} :
        /\ result.op = "start_logging"
        /\ Install(log(getLogger(World, name), name, 30, "app", 0))
        /\ result' = [op |-> "log", self |-> 0, raised |-> "", failing |-> {},
                      name |-> name]
        /\ UNCHANGED <<sublogs, life, now, sessions>>

NextSession ==
    \/ SessionStart
    \/ SessionLog

SpecSession == Init /\ [][NextSession]_vars

----------------------------------------------------------------------------
(* Commands: a SubLog runs one command, over what the command printed *)

Line == {"", "x", " y "}

\* a captured text, as its lines
CapturedTexts == UNION {[1 .. n -> Line] : n \in 0 .. MaxLines}

CommandArgs ==
    [stdout : CapturedTexts, stderr : CapturedTexts, returncode : {0, 1}, check : BOOLEAN]

RunnerArgs ==
    [name : {"a"}, output_dir : {"out"}, parent_logger_name : {NoName},
     file_log_level : LevelNames, log_to_console : {FALSE}, timestamp : {FALSE}]

RunnerNew ==
    \E a \in RunnerArgs : Construct("SubLog", "", a, now, TRUE, MaxSubLogs)

RunCommand == RunSubprocessFrom(CommandArgs)

NextRun ==
    \/ RunnerNew
    \/ RunCommand
    \/ Close

SpecRun == Init /\ [][NextRun]_vars

----------------------------------------------------------------------------
(* The header: one start_logging call on the root channel with a log file,
   over the section toggles, the variables passed and what git answers, and
   then a line logged by the program *)

Toggles ==
    [write_header : BOOLEAN, write_git : BOOLEAN, write_cli_args : BOOLEAN,
     write_python : BOOLEAN, write_env_packages : BOOLEAN, write_variables : BOOLEAN]

\* a value that is no object of the collection, and the k-th object of it
Plain(text) == [ref |-> 0, text |-> text]

Ref(k) == [ref |-> k, text |-> "<Args object>"]

AttrValues == {Plain("1")} \cup {Ref(k) : k \in 1 .. MaxObjects}

Key(k) == "attr" \o ToString(k)

\* vars(obj).items(): the attributes of an object, in the order they were set
AttrLists ==
    UNION {{[k \in 1 .. n |-> [key |-> Key(k), value |-> f[k]]] :
               f \in [1 .. n -> AttrValues]} : n \in 0 .. MaxAttrs}

\* an instance of a class, with __dict__
DictObjects ==
    {[cls |-> "Args", has_dict |-> TRUE, attrs |-> al, text |-> "<Args object>"] :
        al \in AttrLists}

\* an instance of a namedtuple class (no __dict__; _asdict() gives attrs), and
\* an int
SlotObject ==
    [cls |-> "Point", has_dict |-> FALSE, attrs |-> <<[key |-> "x", value |-> Plain("1")]>>,
     text |-> "Point(x=1)"]

IntObject == [cls |-> "int", has_dict |-> FALSE, attrs |-> <<>>, text |-> "1"]

List(items) == [kind |-> "list", fields |-> <<>>, items |-> items]

\* variables=...: None, a list of objects, a list of namedtuples, a list of
\* both, or a namedtuple of plain values
VariableCollections ==
    {NoVariables, List(<<>>)}
        \cup {List(items) : items \in UNION {[1 .. n -> DictObjects] : n \in 1 .. MaxObjects}}
        \cup {List(<<SlotObject>>), List(<<SlotObject, SlotObject>>)}
        \cup {List(<<o, SlotObject>>) : o \in DictObjects}
        \cup {[kind |-> "namedtuple", fields |-> <<"a", "b">>,
               items |-> <<IntObject, IntObject>>]}

\* one collection of each shape
HeaderVariables ==
    {NoVariables, List(<<>>),
     List(<<[cls |-> "Args", has_dict |-> TRUE,
             attrs |-> <<[key |-> Key(1), value |-> Plain("1")]>>,
             text |-> "<Args object>"]>>),
     [kind |-> "namedtuple", fields |-> <<"a", "b">>, items |-> <<IntObject, IntObject>>]}

HeaderArgs == [toggles : Toggles, variables : HeaderVariables, git : GitOutcomes]

VariablesArgs == [toggles : {AllToggles}, variables : VariableCollections, git : {"ok"}]

HeaderFile == "out/fancylog.log"

\* fancylog.start_logging("out", fancylog, variables=..., write_...=...,
\*                        log_to_console=False, timestamp=False)
HeaderStartFrom(args) ==
    /\ result.op = "import"
    /\ \E a \in args :
        /\ \E r \in {start_logging(World, "out", Package("fancylog"), a.variables, TRUE,
                                   "DEBUG", "LOG", FALSE, a.toggles, TRUE, FALSE, FALSE,
                                   NoName, now, [DefaultEnv EXCEPT !.git = a.git])} :
               /\ Install(r.w)
               /\ result' = [op |-> "start_logging", self |-> 0, raised |-> r.raised,
                             failing |-> {}, message |-> r.message,
                             returned |-> r.returned, args |-> a]
        /\ sessions' = sessions + 1
        /\ UNCHANGED <<sublogs, life, now>>

\* logging.warning("app"), after start_logging has returned
HeaderLog ==
    /\ result.op = "start_logging" /\ result.raised = ""
    /\ Install(log(World, Root, 30, "app", 0))
    /\ result' = [result EXCEPT !.op = "log"]
    /\ UNCHANGED <<sublogs, life, now, sessions>>

HeaderStart == HeaderStartFrom(HeaderArgs)

NextHeader ==
    \/ HeaderStart
    \/ HeaderLog

SpecHeader == Init /\ [][NextHeader]_vars

\* the same call with every section on, over the variables collections
VariablesStart == HeaderStartFrom(VariablesArgs)

NextVariables ==
    \/ VariablesStart
    \/ HeaderLog

SpecVariables == Init /\ [][NextVariables]_vars

----------------------------------------------------------------------------
(* Threads: each SubLog is built, used and closed by a thread of its own, and
   the threads take turns between the statements of SubLog.__init__ and
   SubLog.close. A SubLog may be given another SubLog's channel as parent. *)

StepParents == {NoName, "fancylog.sublog.a", "fancylog.sublog.a.x"}

\* the first SubLog is "a" under the root; the second has either name and any
\* of the parents: the root, the first SubLog's channel or a channel below it
StepArgs(i) ==
    {a \in [name : Names, output_dir : {"out"}, parent_logger_name : StepParents,
            file_log_level : LevelNames, log_to_console : BOOLEAN,
            timestamp : {FALSE}] :
        /\ a.log_to_console => a.file_log_level = "DEBUG"
        /\ i = 1 => a.name = "a" /\ a.parent_logger_name = NoName
        /\ i > 1 => ~a.log_to_console}

\* Bookkeeping of a SubLog whose calls run statement by statement. phase:
\* "init" (in __init__), "open", "closing" (in close()), "closed"; todo: the
\* statements of the call in progress still to run
StepLife(args) ==
    [ctx |-> "", args |-> args, sinks |-> <<>>, calls |-> 0, closes |-> 0,
     exits |-> 0, exc |-> "", sent |-> <<>>, phase |-> "init", todo |-> InitSteps]

\* SubLog(...) is called: lines 56-69, the object's own fields
StepNew ==
    \E a \in StepArgs(Len(sublogs) + 1) :
        /\ Len(sublogs) < MaxPair
        /\ sublogs' = Append(sublogs, SubLogObject(a.name, a.output_dir,
                                                   a.parent_logger_name,
                                                   a.file_log_level, a.timestamp, now))
        /\ life' = Append(life, StepLife(a))
        /\ UNCHANGED <<loggerDict, handlerObjs, files, console, lastResort, now,
                       sessions, result>>

\* statement `step` of the call in progress on SubLog i, `rest` being what is
\* left of the call; `result` is set when the call returns
Stepping(i, step, rest) ==
    LET w == SubLogStep(World, i, sublogs[i], step, life[i].args.log_to_console)
        made == IF step \in {"file", "console"}
                THEN [k \in 1 .. (Len(w.handlerObjs) - Len(handlerObjs)) |->
                         Len(handlerObjs) + k]
                ELSE <<>>
        init == life[i].phase = "init"
    IN  /\ Install(w)
        /\ life' = [life EXCEPT
                      ![i].todo = rest,
                      ![i].sinks = @ \o made,
                      ![i].closes = IF life[i].phase = "open" THEN @ + 1 ELSE @,
                      ![i].phase = IF rest # <<>>
                                   THEN (IF init THEN "init" ELSE "closing")
                                   ELSE (IF init THEN "open" ELSE "closed")]
        /\ result' = IF rest # <<>> THEN result
                     ELSE [op |-> IF init THEN "SubLog" ELSE "close", self |-> i,
                           raised |-> "", failing |-> {}]
        /\ UNCHANGED <<sublogs, now, sessions>>

\* the next statement of the call in progress on SubLog i
Step ==
    \E i \in Objects :
        /\ life[i].todo # <<>>
        /\ Stepping(i, Head(life[i].todo), Tail(life[i].todo))

\* sl.close() is called on an open SubLog: its first statement
StepClose ==
    \E i \in Objects :
        /\ life[i].phase = "open"
        /\ Stepping(i, Head(CloseSteps), Tail(CloseSteps))

\* sl.logger.warning("sentinel") on an open SubLog
StepLog ==
    \E i \in Objects :
        /\ life[i].phase = "open"
        /\ life[i].calls < MaxCalls
        /\ Install(log(World, sublogs[i].logger, 30, "sentinel", i))
        /\ life' = [life EXCEPT ![i].calls = @ + 1,
                                ![i].sent = Append(@, [levelno |-> 30])]
        /\ result' = [op |-> "log", self |-> i, raised |-> "", failing |-> {}]
        /\ UNCHANGED <<sublogs, now, sessions>>

\* sl.run_subprocess(command) on an open SubLog; the command printed one line
StepRun ==
    \E i \in Objects :
        /\ life[i].phase = "open"
        /\ life[i].calls < MaxCalls
        /\ Install(run_subprocess(World, i, sublogs[i], "cmd", <<"hello">>, <<>>,
                                  0, FALSE).w)
        /\ life' = [life EXCEPT ![i].calls = @ + 1]
        /\ result' = [op |-> "run_subprocess", self |-> i, raised |-> "",
                      failing |-> {}]
        /\ UNCHANGED <<sublogs, now, sessions>>

NextSteps ==
    \/ StepNew
    \/ Step
    \/ StepClose
    \/ StepLog
    \/ StepRun

SpecSteps == Init /\ [][NextSteps]_vars

----------------------------------------------------------------------------
(* A channel name used again: two SubLogs "a", under the root or under
   "main", and sessions started on the channel names those SubLogs get *)

ReuseArgs ==
    [name : {"a"}, output_dir : {"out"}, parent_logger_name : ParentNames,
     file_log_level : {"DEBUG"}, log_to_console : BOOLEAN, timestamp : {FALSE}]

ReuseSessions ==
    [logger_name : {"fancylog.sublog.a", "main.sublog.a"}, file_log_level : {"DEBUG"},
     log_to_file : {TRUE}, log_to_console : {FALSE},
     multiprocessing_aware : {FALSE}, timestamp : {FALSE}]

ReuseNew ==
    \E a \in ReuseArgs : Construct("SubLog", "", a, now, TRUE, MaxPair)

ReuseStartLogging == StartLoggingFrom(ReuseSessions)

NextReuse ==
    \/ ReuseNew
    \/ ReuseStartLogging
    \/ Close
    \/ LoggerLog

SpecReuse == Init /\ [][NextReuse]_vars

----------------------------------------------------------------------------
(* A channel name used again by a SubLog whose file cannot be opened: the
   name was taken before by another SubLog "a" or by a session *)

RetryArgs ==
    [name : {"a"}, output_dir : {"out"}, parent_logger_name : ParentNames,
     file_log_level : {"DEBUG"}, log_to_console : {FALSE}, timestamp : {FALSE}]

RetrySessions ==
    [logger_name : {NoName, "fancylog.sublog.a"}, file_log_level : {"DEBUG"},
     log_to_file : {TRUE}, log_to_console : {FALSE},
     multiprocessing_aware : {FALSE}, timestamp : {FALSE}]

RetryNew ==
    \E a \in RetryArgs, open_ok \in BOOLEAN :
        Construct("SubLog", "", a, now, open_ok, MaxPair)

RetryEnter ==
    \E a \in RetryArgs, open_ok \in BOOLEAN :
        Construct("sub_log", "block", a, now, open_ok, MaxPair)

RetryStartLogging == StartLoggingFrom(RetrySessions)

NextRetry ==
    \/ RetryNew
    \/ RetryEnter
    \/ RetryStartLogging
    \/ Close
    \/ ExitSubLog

SpecRetry == Init /\ [][NextRetry]_vars

----------------------------------------------------------------------------
(* The claims *)

Constructed == result.op \in {"SubLog", "sub_log"} /\ result.raised = ""

\* C1: a SubLog's channel name is "<parent>.sublog.<name>" when a parent name
\* is given and "fancylog.sublog.<name>" when none is, whatever the output
\* directory, the timestamp flag and the calls made before; the constructor
\* takes over the channel registered under exactly that name.
C1_ChannelName ==
    \A i \in Objects :
        LET p == life[i].args.parent_logger_name
            n == life[i].args.name
        IN  /\ p # NoName => sublogs[i].logger = p \o ".sublog." \o n
            /\ p = NoName => sublogs[i].logger = "fancylog.sublog." \o n
            /\ sublogs[i].logger \in DOMAIN loggerDict
            /\ (Constructed /\ result.self = i)
                  => loggerDict[sublogs[i].logger].handlers = life[i].sinks

C1_Witness ==
    \E i \in Objects :
        /\ life[i].args.parent_logger_name = "main"
        /\ life[i].args.name = "b"
        /\ life[i].args.output_dir = "tmp"
        /\ sessions > 0
        /\ sublogs[i].logger = "main.sublog.b"

\* C2: the step in which a SubLog constructor returns leaves the channel with
\* propagate false and with exactly the sinks this constructor made: a file
\* handler on the sub-log's file, then a console handler if and only if
\* log_to_console was passed; none of them existed before the call, so no sink
\* of an earlier occupant of the name is kept.
C2_FreshSinks ==
    [][(Constructed' /\ Len(sublogs') = Len(sublogs) + 1) =>
         LET i == Len(sublogs')
             ch == loggerDict'[sublogs'[i].logger]
             hs == ch.handlers
         IN  /\ ~ch.propagate
             /\ Len(hs) = IF life'[i].args.log_to_console THEN 2 ELSE 1
             /\ \A k \in DOMAIN hs : hs[k] > Len(handlerObjs)
             /\ handlerObjs'[hs[1]].kind = "FileHandler"
             /\ handlerObjs'[hs[1]].baseFilename = sublogs'[i].log_file
             /\ Len(hs) = 2 => handlerObjs'[hs[2]].kind = "StreamHandler"
             /\ \A k \in DOMAIN hs : ~handlerObjs'[hs[k]].closed
      ]_vars

\* a constructor has just returned on a channel that an earlier SubLog, still
\* open, had given two sinks
C2_Witness ==
    /\ Constructed
    /\ result.self = 2
    /\ sublogs[1].logger = sublogs[2].logger
    /\ life[1].closes = 0
    /\ Len(life[1].sinks) = 2
    /\ Len(loggerDict[sublogs[2].logger].handlers) = 1

\* the records handler h received in this step
NewRecords(h) ==
    LET old == IF h \in DOMAIN handlerObjs THEN Len(handlerObjs[h].received) ELSE 0
    IN  {handlerObjs'[h].received[k] :
            k \in (old + 1) .. Len(handlerObjs'[h].received)}

HandlersOn(ld, name) == IF name \in DOMAIN ld THEN Range(ld[name].handlers) ELSE {}

\* C3: isolation. In every state, no handler of a SubLog's parent channel and
\* no handler of the root channel has received a record logged on the SubLog's
\* channel; and in every step, a record logged on a SubLog's channel is
\* received only by handlers that are on that channel.
C3_Isolation ==
    [][\A i \in DOMAIN sublogs' :
         LET ch == sublogs'[i].logger
         IN  /\ \A h \in HandlersOn(loggerDict', sublogs'[i]._parent_logger)
                            \cup HandlersOn(loggerDict', Root) :
                   \A k \in DOMAIN handlerObjs'[h].received :
                       handlerObjs'[h].received[k].name # ch
             /\ \A h \in DOMAIN handlerObjs' :
                   \A rec \in NewRecords(h) :
                       rec.name = ch =>
                           h \in HandlersOn(loggerDict, ch) \cup HandlersOn(loggerDict', ch)
      ]_vars

\* an open SubLog has logged a message that its own file handler received, and
\* its parent channel has a handler, which received the breadcrumb only
C3_Witness ==
    \E i \in Objects :
        /\ life[i].closes = 0
        /\ life[i].sent # <<>>
        /\ \E k \in DOMAIN handlerObjs[life[i].sinks[1]].received :
              handlerObjs[life[i].sinks[1]].received[k].msg = "sentinel"
        /\ \E h \in HandlersOn(loggerDict, sublogs[i]._parent_logger) :
              /\ handlerObjs[h].received # <<>>
              /\ \E k \in DOMAIN handlerObjs[h].received :
                    handlerObjs[h].received[k].src = i

IsClose(r) == r.op \in {"close", "exit"}

\* C4: a close() that returns on an open SubLog (none of its close() calls made
\* yet) leaves the channel with no handler, and every handler that was on the
\* channel when close() began - file, console or added by the caller - is
\* closed, holds no open stream if it is a file handler, and is on no channel.
C4_ReleaseAll ==
    [][\A i \in Objects :
         (IsClose(result') /\ result'.self = i /\ result'.raised = ""
            /\ life[i].closes = 0 /\ life'[i].closes = 1) =>
           /\ loggerDict'[sublogs[i].logger].handlers = <<>>
           /\ \A h \in HandlersOn(loggerDict, sublogs[i].logger) :
                 /\ handlerObjs'[h].closed
                 /\ handlerObjs'[h].kind = "FileHandler" => ~handlerObjs'[h].stream
                 /\ \A n \in DOMAIN loggerDict' : h \notin HandlersOn(loggerDict', n)
      ]_vars

\* close() has returned on a SubLog built with a console sink to whose channel
\* the caller had added a handler of its own: all three are closed
C4_Witness ==
    \E i \in Objects :
        /\ result.op = "close" /\ result.self = i /\ result.raised = ""
        /\ life[i].closes = 1
        /\ Len(life[i].sinks) = 2
        /\ Len(handlerObjs) = 3
        /\ \A h \in DOMAIN handlerObjs : handlerObjs[h].closed
        /\ loggerDict[sublogs[i].logger].handlers = <<>>

\* C5: every close() call on a SubLog, the first and each later one, raises
\* nothing (when the wrapper makes the call, nothing but what the with block
\* raised goes on) and leaves the channel with no handler.
C5_CloseIdempotent ==
    [][\A i \in Objects :
         (IsClose(result') /\ result'.self = i /\ life'[i].closes = life[i].closes + 1) =>
           /\ result'.op = "close" => result'.raised = ""
           /\ result'.op = "exit" => result'.raised = life'[i].exc
           /\ loggerDict'[sublogs[i].logger].handlers = <<>>
      ]_vars

\* a second close() has returned
C5_Witness ==
    \E i \in Objects :
        /\ result.op = "close" /\ result.self = i /\ result.raised = ""
        /\ life[i].closes = 2
        /\ loggerDict[sublogs[i].logger].handlers = <<>>

\* C6: close() on a SubLog that is already closed (a close() call has been
\* made and its channel has no handler) is a no-op: it changes no channel, no
\* handler, no file and prints nothing.
C6_SecondCloseNoOp ==
    [][\A i \in Objects :
         (result'.op = "close" /\ result'.self = i
            /\ life[i].closes >= 1 /\ life'[i].closes = life[i].closes + 1
            /\ loggerDict[sublogs[i].logger].handlers = <<>>) =>
           /\ loggerDict' = loggerDict
           /\ handlerObjs' = handlerObjs
           /\ files' = files
           /\ console' = console
           /\ lastResort' = lastResort
      ]_vars

\* the lines of file f that SubLog i's methods wrote with message msg
Lines(f, i, msg) ==
    IF f \in DOMAIN files
    THEN {k \in DOMAIN files[f] : files[f][k].src = i /\ files[f][k].msg = msg}
    ELSE {}

\* the file handlers on SubLog i's parent channel that were there before the
\* SubLog was built and that record INFO messages of the parent
ParentFiles(i) ==
    {h \in HandlersOn(loggerDict, sublogs[i]._parent_logger) :
        /\ handlerObjs[h].kind = "FileHandler"
        /\ h < life[i].sinks[1]
        /\ handlerObjs[h].level <= 20
        /\ isEnabledFor(World, sublogs[i]._parent_logger, 20)}

\* C7: for every SubLog under a parent channel with a file sink (one that
\* records the parent's INFO messages), the parent's file holds exactly one
\* "Starting sub-log" line of that SubLog naming its log file, from the
\* constructor's return on; no "finished, log saved to" line of it before
\* close(), and exactly one after.
C7_OneStartOneFinish ==
    \A i \in Objects : \A h \in ParentFiles(i) :
        LET f == handlerObjs[h].baseFilename
            self == sublogs[i]
        IN  /\ Cardinality(Lines(f, i, StartingMsg(self.name, self.log_file))) = 1
            /\ life[i].closes = 0 =>
                  Lines(f, i, SavedMsg(self.name, self.log_file)) = {}
            /\ life[i].closes >= 1 =>
                  Cardinality(Lines(f, i, SavedMsg(self.name, self.log_file))) = 1

\* the sub-log file of SubLog i holds a "sentinel" line of that level
SentinelInFile(i, levelno) ==
    \E k \in Lines(sublogs[i].log_file, i, "sentinel") :
        files[sublogs[i].log_file][k].levelno = levelno

FinishedInFile(i) ==
    Lines(sublogs[i].log_file, i, FinishedMsg(sublogs[i].name)) # {}

C9_BestEffortRelease ==
    [][\A i \in Objects :
         (IsClose(result') /\ result'.self = i /\ result'.failing # {}
            /\ life[i].closes = 0) =>
              /\ \A h \in Range(loggerDict[sublogs[i].logger].handlers) \ result'.failing :
                    handlerObjs'[h].closed
              /\ loggerDict'[sublogs[i].logger].handlers = <<>>
              /\ \A h \in ParentFiles(i) :
                    Cardinality(Lines(handlerObjs[h].baseFilename, i,
                                      SavedMsg(sublogs[i].name,
                                               sublogs[i].log_file)))' = 1
              /\ result'.raised = ""
      ]_vars

\* what a channel is configured with; a channel nobody asked for yet is made
\* with the defaults on first use
ChannelConfig(ld, name) == IF name \in DOMAIN ld THEN ld[name] ELSE NewLogger

SubLogOps == {"SubLog", "sub_log", "log", "run_subprocess", "close", "exit"}

Breadcrumbs(i, self) ==
    {[name |-> self._parent_logger, levelno |-> 20, src |-> i, msg |-> m] :
        m \in {StartingMsg(self.name, self.log_file),
               SavedMsg(self.name, self.log_file)}}

\* C10: every step made by a SubLog (construction, logging on its channel,
\* run_subprocess, close, leaving the with block) leaves its parent channel's
\* handler list, level and propagate flag as they were, leaves the level and
\* closed state of each handler on the parent as they were, and delivers to the
\* parent's handlers nothing but that SubLog's start and finish breadcrumbs.
C10_ParentUntouched ==
    [][\A i \in DOMAIN sublogs' :
         (result'.self = i /\ result'.op \in SubLogOps) =>
            LET self == sublogs'[i]
                p == self._parent_logger
            IN  /\ ChannelConfig(loggerDict', p) = ChannelConfig(loggerDict, p)
                /\ \A h \in HandlersOn(loggerDict', p) :
                      /\ h \in DOMAIN handlerObjs
                      /\ handlerObjs'[h].level = handlerObjs[h].level
                      /\ handlerObjs'[h].closed = handlerObjs[h].closed
                      /\ NewRecords(h) \subseteq Breadcrumbs(i, self)
      ]_vars

\* a SubLog under a parent with a file handler was built, logged a message and
\* was closed: the parent's file holds both breadcrumbs and the parent channel
\* still has its handler
C10_Witness ==
    \E i \in Objects : \E h \in ParentFiles(i) :
        LET self == sublogs[i]
            f == handlerObjs[h].baseFilename
        IN  /\ result.op = "close" /\ result.self = i
            /\ life[i].closes = 1 /\ Len(life[i].sent) = 1
            /\ Lines(f, i, StartingMsg(self.name, self.log_file)) # {}
            /\ Lines(f, i, SavedMsg(self.name, self.log_file)) # {}
            /\ h \in Range(loggerDict[self._parent_logger].handlers)

\* a start_logging call whose arguments bound to the parameters has been made
\* on channel logger_name (NoName: the root channel)
Started(r, logger_name) ==
    /\ r.op = "start_logging"
    /\ r.args.package.kind # "missing"
    /\ r.args.logger_name = logger_name

\* the handlers a call with arguments a asks for, as kinds in order
Requested(a) ==
    (IF a.log_to_file THEN <<"FileHandler">> ELSE <<>>)
        \o (IF a.log_to_console THEN <<"StreamHandler">> ELSE <<>>)

\* C11: every start_logging call on the named channel, whatever calls came
\* before, leaves the channel with propagate false and with exactly the
\* handlers the call asked for, all of them new: a file handler on the log
\* file iff log_to_file, then a console handler iff log_to_console; and a
\* message logged on the named channel after it reaches no handler of the
\* root channel.
C11_NamedReconfigured ==
    [][/\ Started(result', "main") =>
            LET hs == loggerDict'["main"].handlers
                a == result'.args
            IN  /\ loggerDict'["main"].propagate = FALSE
                /\ [k \in DOMAIN hs |-> handlerObjs'[hs[k]].kind] = Requested(a)
                /\ \A k \in DOMAIN hs : hs[k] \notin DOMAIN handlerObjs
                /\ a.log_to_file =>
                      handlerObjs'[hs[1]].baseFilename = "out/fancylog.log"
       /\ (Started(result, "main") /\ result'.op = "log" /\ result'.name = "main") =>
            /\ \A h \in HandlersOn(loggerDict, Root) : NewRecords(h) = {}
            /\ \A h \in HandlersOn(loggerDict, "main") : NewRecords(h) # {}
      ]_vars

\* a second or third call on the named channel asked for the console only,
\* where an earlier call had attached a file handler to that channel
C11_Witness ==
    /\ Started(result, "main") /\ sessions >= 2
    /\ result.args.log_to_console /\ ~result.args.log_to_file
    /\ Len(loggerDict["main"].handlers) = 1
    /\ \E h \in DOMAIN handlerObjs :
          /\ handlerObjs[h].kind = "FileHandler"
          /\ h \notin HandlersOn(loggerDict, "main") \cup HandlersOn(loggerDict, Root)
          /\ \E k \in DOMAIN handlerObjs[h].received :
                handlerObjs[h].received[k].name = "main"

EndsWith(text, end) ==
    /\ Len(text) >= Len(end)
    /\ SubSeq(text, Len(text) - Len(end) + 1, Len(text)) = end

\* C13: every start_logging call that asks for multiprocessing_aware on a
\* named channel raises ValueError, whatever log_to_file and log_to_console
\* are and whatever calls came before, and the message says that multiprocess
\* logging must be performed with the root logger; no other call raises it.
C13_MultiprocessingNamed ==
    [][(result'.op = "start_logging" /\ result'.args.package.kind # "missing") =>
          IF result'.args.multiprocessing_aware /\ result'.args.logger_name # NoName
          THEN /\ result'.raised = "ValueError"
               /\ EndsWith(result'.message,
                           "Multiprocess loggingmust be performed with the root logger.")
               /\ result'.returned = NoName
          ELSE result'.raised = ""
      ]_vars

\* the call asked for multiprocessing, a name, a file and the console, and
\* raised the error
C13_Witness ==
    /\ Started(result, "main")
    /\ result.args.multiprocessing_aware
    /\ result.args.log_to_file /\ result.args.log_to_console
    /\ result.raised = "ValueError"
    /\ result.message = MultiprocessingMessage

\* C14: a start_logging call that passes an output directory and no package
\* raises ValueError and starts no session: no channel, handler or file is
\* touched.
C14_NoPackageValueError ==
    [][(result'.op = "start_logging" /\ result'.args.package.kind = "missing") =>
          /\ result'.raised = "ValueError"
          /\ loggerDict' = loggerDict
          /\ handlerObjs' = handlerObjs
          /\ files' = files
      ]_vars

\* the section titles, in the order of the writer
SectionNames ==
    <<"LOG", "GIT INFO", "COMMAND LINE ARGUMENTS", "PYTHON VERSION", "ENVIRONMENT",
      "VARIABLES", "LOGGING">>

IsHeaderText(e) == e.name = ""

IsBanner(e) ==
    e.name = "" /\ \E k \in DOMAIN SectionNames : e.msg = Banner(SectionNames[k])

IsSectionBanner(e) ==
    e.name = "" /\ \E k \in 1 .. 6 : e.msg = Banner(SectionNames[k])

Texts(entries) == [k \in DOMAIN entries |-> entries[k].msg]

\* the header file of the call made, a start_logging call having been made
HeaderWritten == result.op \in {"start_logging", "log"} /\ HeaderFile \in DOMAIN files

\* every text of the header precedes every line a handler wrote
HeaderFirst(f) ==
    \A i, j \in DOMAIN files[f] :
        (files[f][i].name = "" /\ files[f][j].name # "") => i < j

\* C15: with the six toggles on, start_logging returns, the banners of the
\* header file are LOG, GIT INFO, COMMAND LINE ARGUMENTS, PYTHON VERSION,
\* ENVIRONMENT, VARIABLES and LOGGING in that order, the LOGGING banner is the
\* last text of the header but for the separator under it, and every text of
\* the header precedes every line written by the file handler.
C15_HeaderOrder ==
    (result.op \in {"start_logging", "log"} /\ result.args.toggles = AllToggles) =>
        /\ result.raised = ""
        /\ HeaderFile \in DOMAIN files
        /\ LET header == SelectSeq(files[HeaderFile], IsHeaderText)
           IN  /\ Texts(SelectSeq(header, IsBanner))
                     = [k \in DOMAIN SectionNames |-> Banner(SectionNames[k])]
               /\ Len(header) >= 2
               /\ header[Len(header) - 1].msg = Banner("LOGGING")
        /\ HeaderFirst(HeaderFile)

\* the banners the call asks for: a section whose toggle is on, where toggle
\* number 6 counts as on when `also` holds as well
RECURSIVE Asked(_, _, _)
Asked(toggles, also, k) ==
    IF k > 6 THEN <<>>
    ELSE LET on == <<toggles.write_header, toggles.write_git, toggles.write_cli_args,
                     toggles.write_python, toggles.write_env_packages,
                     toggles.write_variables /\ also>>
         IN  (IF on[k] THEN <<Banner(SectionNames[k])>> ELSE <<>>)
                 \o Asked(toggles, also, k + 1)

\* C16 as stated: for every choice of the six toggles the section banners in
\* the header file are those of the sections whose toggle is on, each once,
\* in the order run header, git, command line, python version, environment,
\* variables.
C16_BannerIffToggle ==
    HeaderWritten =>
        Texts(SelectSeq(files[HeaderFile], IsSectionBanner))
            = Asked(result.args.toggles, TRUE, 1)

\* C16 as amended: the same, where the VARIABLES banner is there iff
\* write_variables is on and the variables collection passed is not empty
\* (not None, not an empty list).
C16_BannerIffToggleAndVariables ==
    HeaderWritten =>
        Texts(SelectSeq(files[HeaderFile], IsSectionBanner))
            = Asked(result.args.toggles, result.args.variables.items # <<>>, 1)

\* git, python version and variables asked for with a collection of objects,
\* the other three not: three banners
C16_Witness ==
    /\ HeaderWritten
    /\ result.args.toggles = [write_header |-> FALSE, write_git |-> TRUE,
                              write_cli_args |-> FALSE, write_python |-> TRUE,
                              write_env_packages |-> FALSE, write_variables |-> TRUE]
    /\ result.args.variables.items # <<>>
    /\ Texts(SelectSeq(files[HeaderFile], IsSectionBanner))
          = <<Banner("GIT INFO"), Banner("PYTHON VERSION"), Banner("VARIABLES")>>

\* where a banner is in a sequence of header texts (0: nowhere)
BannerAt(header, section_header) ==
    IF \E k \in DOMAIN header : header[k].msg = Banner(section_header)
    THEN CHOOSE k \in DOMAIN header : header[k].msg = Banner(section_header)
    ELSE 0

\* the texts between the VARIABLES banner and the LOGGING banner, the separator
\* under the first and the separator over the second left out
VariablesSection(f) ==
    LET header == SelectSeq(files[f], IsHeaderText)
    IN  Texts(SubSeq(header, BannerAt(header, "VARIABLES") + 2,
                     BannerAt(header, "LOGGING") - 2))

\* attribute-walk mode: a list of objects that all have per-instance attributes
AttributeWalk(variable_objects) ==
    /\ variable_objects.kind = "list"
    /\ variable_objects.items # <<>>
    /\ \A k \in DOMAIN variable_objects.items : variable_objects.items[k].has_dict

\* what the claim has the writer emit: for each object its type name, then a
\* line for each attribute whose value is not in omitted[k] for object k
RECURSIVE WalkLines(_, _, _)
WalkLines(variable_objects, omitted, k) ==
    IF k > Len(variable_objects.items) THEN <<>>
    ELSE LET obj == variable_objects.items[k]
             kept == SelectSeq(obj.attrs, LAMBDA a : a.value.ref \notin omitted[k])
         IN  <<"\n" \o obj.cls \o ":\n">>
                 \o [j \in DOMAIN kept |-> kept[j].key \o ": " \o kept[j].value.text \o "\n"]
                 \o WalkLines(variable_objects, omitted, k + 1)

\* C17 as stated: in attribute-walk mode the variables section holds, for each
\* object in turn, its type name and one key: value line for each of its
\* attributes except those whose value is one of the other objects of the
\* collection.
C17_WalkOmitsOthers ==
    (HeaderWritten /\ AttributeWalk(result.args.variables)) =>
        LET vo == result.args.variables
        IN  VariablesSection(HeaderFile)
                = WalkLines(vo, [k \in DOMAIN vo.items |-> DOMAIN vo.items \ {k}], 1)

\* C17 as amended: the same, where the attributes left out are those whose
\* value is any object of the collection, the object itself included.
C17_WalkOmitsMembers ==
    (HeaderWritten /\ AttributeWalk(result.args.variables)) =>
        LET vo == result.args.variables
        IN  /\ result.raised = ""
            /\ VariablesSection(HeaderFile)
                   = WalkLines(vo, [k \in DOMAIN vo.items |-> DOMAIN vo.items], 1)

\* two objects, the first holding the second and a plain value, the second
\* holding itself and a plain value: the plain values only are written
C17_Witness ==
    /\ HeaderWritten
    /\ AttributeWalk(result.args.variables)
    /\ Len(result.args.variables.items) = 2
    /\ result.args.variables.items[1].attrs
          = <<[key |-> Key(1), value |-> Ref(2)], [key |-> Key(2), value |-> Plain("1")]>>
    /\ result.args.variables.items[2].attrs
          = <<[key |-> Key(1), value |-> Ref(2)], [key |-> Key(2), value |-> Plain("1")]>>
    /\ VariablesSection(HeaderFile)
          = <<"\nArgs:\n", "attr2: 1\n", "\nArgs:\n", "attr2: 1\n">>

\* dictionary-view mode: the first element has no per-instance attributes and
\* gives a dictionary view of its fields
DictionaryView(variable_objects) ==
    /\ variable_objects.items # <<>>
    /\ ~variable_objects.items[1].has_dict
    /\ variable_objects.items[1].attrs # <<>>

RECURSIVE ViewLines(_, _)
ViewLines(variable_objects, k) ==
    IF k > Len(variable_objects.items) THEN <<>>
    ELSE LET attrs == variable_objects.items[k].attrs
         IN  [j \in DOMAIN attrs |-> attrs[j].key \o ": " \o attrs[j].value.text \o "\n"]
                 \o ViewLines(variable_objects, k + 1)

\* C18: in dictionary-view mode start_logging returns without error and the
\* variables section holds the key: value lines of the dictionary view of every
\* element of the collection, in turn.
C18_DictionaryView ==
    (HeaderWritten /\ DictionaryView(result.args.variables)) =>
        /\ result.raised = ""
        /\ VariablesSection(HeaderFile) = ViewLines(result.args.variables, 1)

\* the texts of the git section: what follows the separator under the GIT INFO
\* banner, up to the separator over the next banner or to the end of the header
GitSection(f) ==
    LET header == SelectSeq(files[f], IsHeaderText)
        g == BannerAt(header, "GIT INFO")
        later == {k \in DOMAIN header : k > g /\ IsBanner(header[k])}
        next == IF later = {} THEN Len(header) + 2
                ELSE CHOOSE k \in later : \A j \in later : k <= j
    IN  Texts(SubSeq(header, g + 2, next - 2))

\* C19: when write_git is on, the git section holds the five commit lines, or
\* the one line about gitpython, or the one line about the repository,
\* according to what get_git_info gave; in the two failure cases start_logging
\* raises nothing and returns the log file, the sections asked for after the
\* git section are in the file in order, and the file handler is on the file.
C19_GitOutcomes ==
    (HeaderWritten /\ result.args.toggles.write_git) =>
        LET a == result.args
        IN  /\ GitSection(HeaderFile)
                  = IF a.git = "ok" THEN CommitLines
                    ELSE IF a.git = "GitPythonError" THEN <<GitPythonLine>>
                    ELSE <<GitEnvironmentLine>>
            /\ a.git # "ok" =>
                  /\ result.raised = ""
                  /\ result.returned = HeaderFile
                  /\ Texts(SelectSeq(files[HeaderFile], IsSectionBanner))
                        = Asked(a.toggles, a.variables.items # <<>>, 1)
                  /\ \E h \in HandlersOn(loggerDict, Root) :
                        /\ handlerObjs[h].kind = "FileHandler"
                        /\ handlerObjs[h].baseFilename = HeaderFile

\* the package is in no git repository, every section is on and variables are
\* passed: the line about the repository is in the file, the LOGGING banner
\* and a logged line follow
C19_Witness ==
    /\ result.op = "log"
    /\ result.args.git = "GitEnvironmentError"
    /\ result.args.toggles = AllToggles
    /\ result.args.variables.items # <<>>
    /\ GitSection(HeaderFile) = <<GitEnvironmentLine>>
    /\ \E k \in DOMAIN files[HeaderFile] : files[HeaderFile][k].msg = Banner("LOGGING")
    /\ files[HeaderFile][Len(files[HeaderFile])].msg = "app"


\* the lines of a captured text that are left when the whitespace at the start
\* and at the end of the text is taken off: from the first line with a
\* non-blank character to the last, the first without its leading spaces and
\* the last without its trailing spaces
Stripped(lines) ==
    LET inked == {k \in DOMAIN lines : ~IsSpace(lines[k])}
    IN  IF inked = {} THEN <<>>
        ELSE LET a == CHOOSE k \in inked : \A j \in inked : k <= j
                 b == CHOOSE k \in inked : \A j \in inked : j <= k
             IN  [k \in 1 .. (b - a + 1) |->
                    LET line == lines[a + k - 1]
                        left == IF k = 1 THEN lstripText(line) ELSE line
                    IN  IF k = b - a + 1 THEN rstripText(left) ELSE left]

\* the records the claim lists for output lines out and err and exit code rc
CompletionRecords(out, err, rc) ==
    [k \in DOMAIN out |-> [levelno |-> 20, msg |-> "[stdout] " \o out[k]]]
        \o [k \in DOMAIN err |-> [levelno |-> 30, msg |-> "[stderr] " \o err[k]]]
        \o <<[levelno |-> 20,
              msg |-> "Command finished with return code " \o ToString(rc)]>>

\* the last n entries of SubLog i's file
FileTail(i, n) ==
    LET got == files[sublogs[i].log_file]
    IN  SubSeq(got, Len(got) - n + 1, Len(got))

\* SubLog i's file ends with the records, each logged on the sub-log channel by
\* SubLog i
FileEndsWith(i, records) ==
    /\ Len(files[sublogs[i].log_file]) >= Len(records)
    /\ FileTail(i, Len(records)) =
           [k \in DOMAIN records |->
               [name |-> sublogs[i].logger, levelno |-> records[k].levelno,
                msg |-> records[k].msg, src |-> i]]

AtOrAbove(records, level_name) ==
    SelectSeq(records, LAMBDA c : c.levelno >= LevelNo(level_name))

\* run_subprocess has just returned on SubLog i, which was open
RanOnOpen(i) ==
    /\ result.op = "run_subprocess" /\ result.self = i /\ result.raised = ""
    /\ life[i].closes = 0

\* the completed-process result is the command's: its exit code and the text
\* it printed, unchanged
ReturnsCommandResult ==
    result.returned = <<[returncode |-> result.args.returncode,
                         stdout |-> result.args.stdout,
                         stderr |-> result.args.stderr]>>

\* C20 as stated: run_subprocess on an open SubLog logs on the sub-log channel,
\* after the "Running command" record, one INFO "[stdout] <line>" per captured
\* stdout line, then one WARNING "[stderr] <line>" per captured stderr line,
\* then one INFO "Command finished with return code <rc>", and returns the
\* command's exit code and captured text.
C20_RecordPerCapturedLine ==
    \A i \in Objects :
        RanOnOpen(i) =>
            /\ Tail(result.emitted) =
                   CompletionRecords(result.args.stdout, result.args.stderr,
                                     result.args.returncode)
            /\ ReturnsCommandResult

\* C20, amended: the lines logged are those of the captured text once the
\* whitespace at its start and end is stripped (blank lines in the middle are
\* logged); the records are made in that order on the sub-log channel, those
\* at or above the file level are the last entries of the sub-log's file while
\* its file handler is on the channel, and the result returned holds the exit
\* code and the unstripped text.
C20_RecordPerStrippedLine ==
    \A i \in Objects :
        RanOnOpen(i) =>
            /\ Head(result.emitted) = [levelno |-> 20, msg |-> "Running command: cmd"]
            /\ Tail(result.emitted) =
                   CompletionRecords(Stripped(result.args.stdout),
                                     Stripped(result.args.stderr),
                                     result.args.returncode)
            /\ Attached(i) =>
                   FileEndsWith(i, AtOrAbove(result.emitted, life[i].args.file_log_level))
            /\ ReturnsCommandResult

\* a command that printed two stdout lines and, after a blank line, one stderr
\* line and exited with 1 was run on an open SubLog that records DEBUG: the
\* file ends with the two INFO records, the WARNING record and the summary
C20_Witness ==
    \E i \in Objects :
        /\ RanOnOpen(i) /\ Attached(i)
        /\ life[i].args.file_log_level = "DEBUG"
        /\ result.args.stdout = <<"x", " y ">>
        /\ result.args.stderr = <<"", "x">>
        /\ result.args.returncode = 1
        /\ [k \in 1 .. 4 |-> FileTail(i, 4)[k].msg] =
               <<"[stdout] x", "[stdout]  y", "[stderr] x",
                 "Command finished with return code 1">>
        /\ [k \in 1 .. 4 |-> FileTail(i, 4)[k].levelno] = <<20, 20, 30, 20>>
        /\ result.returned[1].stdout = <<"x", " y ">>

\* the last record run_subprocess made is the return-code summary
SummaryLogged ==
    result.emitted[Len(result.emitted)] =
        [levelno |-> 20,
         msg |-> "Command finished with return code "
                     \o ToString(result.args.returncode)]

\* C21: run_subprocess on an open SubLog raises nothing whatever the exit code
\* of the command and whatever options the caller passed through (check=True
\* among them): it returns a result whose exit code is the command's, and the
\* "Command finished with return code <rc>" record has been logged on the
\* sub-log channel.
C21_NoRaiseOnExit ==
    \A i \in Objects :
        (result.op = "run_subprocess" /\ result.self = i /\ life[i].closes = 0) =>
            /\ result.raised = ""
            /\ Len(result.returned) = 1
            /\ result.returned[1].returncode = result.args.returncode
            /\ SummaryLogged

\* no other SubLog has SubLog i's channel, or a channel below it in the dotted
\* hierarchy, as its parent
NotParent(i) ==
    \A j \in Objects \ {i} :
        /\ sublogs[j]._parent_logger # sublogs[i].logger
        /\ ~IsDottedPrefix(sublogs[i].logger, sublogs[j]._parent_logger)

\* SubLog i has its channel and its file to itself: no other SubLog has the
\* same channel name or the same log file, and none logs its breadcrumbs there
Sole(i) ==
    /\ NotParent(i)
    /\ \A j \in Objects \ {i} :
          /\ sublogs[j].logger # sublogs[i].logger
          /\ sublogs[j].log_file # sublogs[i].log_file

AdmitsInfo(i) == LevelNo(sublogs[i].file_log_level) <= 20

Last(seq) == seq[Len(seq)]

RecordOf(i, name, msg) == [name |-> name, levelno |-> 20, msg |-> msg, src |-> i]

FinishedRecord(i) == RecordOf(i, sublogs[i].logger, FinishedMsg(sublogs[i].name))

SavedRecord(i) ==
    RecordOf(i, sublogs[i]._parent_logger,
             SavedMsg(sublogs[i].name, sublogs[i].log_file))

\* this step runs the k-th statement of close() on SubLog i
CloseStatement(i, k) ==
    /\ life'[i].phase \in {"closing", "closed"}
    /\ life[i].phase = "open" \/ life'[i].todo # life[i].todo
    /\ Len(life'[i].todo) = 3 - k

\* the three statements of close() on SubLog i; recorded: whether the
\* "finished" message gets into the sub-log's file
CloseInOrder(i, recorded) ==
    LET self == sublogs[i]
        ch == self.logger
        f == self.log_file
    IN  /\ CloseStatement(i, 1) =>
              /\ loggerDict[ch].handlers = life[i].sinks
              /\ \A h \in Range(life[i].sinks) : ~handlerObjs[h].closed
              /\ loggerDict' = loggerDict
              /\ recorded => files'[f] = Append(files[f], FinishedRecord(i))
              /\ ~recorded => files' = files
              /\ RunSteps(World, i, self, CloseSteps, life[i].args.log_to_console)
                     = close(World, i, self, {}).w
        /\ CloseStatement(i, 2) =>
              /\ loggerDict[ch].handlers = life[i].sinks
              /\ recorded => Last(files[f]) = FinishedRecord(i)
              /\ loggerDict'[ch].handlers = <<>>
              /\ \A h \in Range(life[i].sinks) :
                    /\ handlerObjs'[h].closed
                    /\ handlerObjs'[h].kind = "FileHandler" => ~handlerObjs'[h].stream
              /\ files' = files
        /\ CloseStatement(i, 3) =>
              /\ loggerDict[ch].handlers = <<>>
              /\ loggerDict' = loggerDict
              /\ \A h \in DOMAIN handlerObjs :
                    /\ NewRecords(h) \subseteq {SavedRecord(i)}
                    /\ (h \in HandlersOn(loggerDict, self._parent_logger)
                          /\ handlerObjs[h].level <= 20
                          /\ isEnabledFor(World, self._parent_logger, 20))
                         => NewRecords(h) = {SavedRecord(i)}
              /\ files'[f] = files[f]
              /\ recorded => Last(files'[f]) = FinishedRecord(i)

StartingRecord(i) ==
    RecordOf(i, sublogs[i]._parent_logger,
             StartingMsg(sublogs[i].name, sublogs[i].log_file))

StartedRecord(i) == RecordOf(i, sublogs[i].logger, StartedMsg(sublogs[i].name))

\* this step runs the k-th statement group of SubLog.__init__ on SubLog i
InitStatement(i, k) ==
    /\ life[i].phase = "init"
    /\ life'[i].todo # life[i].todo
    /\ Len(life'[i].todo) = 5 - k

\* the sinks SubLog i was asked for are on its channel, the file sink first,
\* and they are the sinks this SubLog made
SinksAttached(i) ==
    LET hs == loggerDict[sublogs[i].logger].handlers
    IN  /\ hs = life[i].sinks
        /\ Len(hs) = IF life[i].args.log_to_console THEN 2 ELSE 1
        /\ handlerObjs[hs[1]].kind = "FileHandler"
        /\ handlerObjs[hs[1]].baseFilename = sublogs[i].log_file
        /\ Len(hs) = 2 => handlerObjs[hs[2]].kind = "StreamHandler"

\* the statements of SubLog.__init__ on SubLog i; recorded: whether the
\* "started" message gets into the sub-log's file
InitInOrder(i, recorded) ==
    LET self == sublogs[i]
        ch == self.logger
        f == self.log_file
    IN  /\ InitStatement(i, 1) =>
              /\ loggerDict'[ch].handlers = <<>>
              /\ ~loggerDict'[ch].propagate
              /\ handlerObjs' = handlerObjs /\ files' = files
              /\ RunSteps(World, i, self, InitSteps, life[i].args.log_to_console)
                     = SubLogInit(World, i, self, life[i].args.log_to_console, TRUE).w
        /\ InitStatement(i, 2) =>
              /\ Len(life'[i].sinks) = 1
              /\ loggerDict'[ch].handlers = life'[i].sinks
              /\ handlerObjs'[life'[i].sinks[1]].received = <<>>
        /\ InitStatement(i, 3) =>
              /\ SinksAttached(i)'
              /\ \A h \in Range(life'[i].sinks) : handlerObjs'[h].received = <<>>
        /\ InitStatement(i, 4) =>
              /\ SinksAttached(i)
              /\ loggerDict'[ch] = loggerDict[ch]
              /\ \A h \in Range(life[i].sinks) : handlerObjs'[h].received = <<>>
              /\ \A h \in DOMAIN handlerObjs :
                    /\ NewRecords(h) \subseteq {StartingRecord(i)}
                    /\ (h \in HandlersOn(loggerDict, self._parent_logger)
                          /\ handlerObjs[h].level <= 20
                          /\ isEnabledFor(World, self._parent_logger, 20))
                         => NewRecords(h) = {StartingRecord(i)}
              /\ files'[f] = files[f]
        /\ InitStatement(i, 5) =>
              /\ SinksAttached(i)
              /\ loggerDict' = loggerDict
              /\ recorded =>
                    /\ handlerObjs'[life[i].sinks[1]].received = <<StartedRecord(i)>>
                    /\ files'[f] = Append(files[f], StartedRecord(i))
              /\ ~recorded => files' = files

DistinctName(i) ==
    \A j \in Objects \ {i} : sublogs[j].logger # sublogs[i].logger

\* what an open SubLog i owns: in the state a step leads to its channel holds
\* exactly the sinks it attached, none of them closed; and a step that is not
\* SubLog i's own changes neither its channel nor any of its sinks, and
\* delivers them no record
Owns(i) ==
    LET ch == sublogs[i].logger
    IN  /\ life'[i].phase = "open" =>
              /\ loggerDict'[ch].handlers = life'[i].sinks
              /\ \A h \in Range(life'[i].sinks) : ~handlerObjs'[h].closed
        /\ (life[i].phase = "open" /\ life'[i] = life[i]) =>
              /\ loggerDict'[ch] = loggerDict[ch]
              /\ \A h \in Range(life[i].sinks) : handlerObjs'[h] = handlerObjs[h]

\* C24 as stated: a SubLog whose channel name differs from every other
\* SubLog's keeps, under any interleaving of the statements of create, log,
\* run_subprocess and close, exactly the sinks it attached on its channel for
\* as long as it is open, and no step of another SubLog detaches, releases or
\* delivers a record to those sinks.
C24_ExclusiveSinks ==
    [][\A i \in Objects : (DistinctName(i) /\ DistinctName(i)') => Owns(i)]_vars

\* C24, amended: the same for SubLogs with pairwise distinct channel names none
\* of which has another's channel, or a channel below it, as its parent.
C24_ExclusiveSinksApart ==
    [][\A i \in Objects :
         (DistinctName(i) /\ DistinctName(i)' /\ NotParent(i) /\ NotParent(i)')
            => Owns(i)]_vars

\* SubLogs "a" and "b" under the root ran side by side; "b" logged and was
\* closed, and "a", still open, holds its two sinks, which received only its
\* own records
C24_Witness ==
    /\ Len(sublogs) = 2
    /\ DistinctName(1) /\ NotParent(1) /\ NotParent(2)
    /\ life[2].phase = "closed" /\ life[2].calls = 1
    /\ life[1].phase = "open" /\ life[1].calls = 1
    /\ Len(life[1].sinks) = 2
    /\ loggerDict[sublogs[1].logger].handlers = life[1].sinks
    /\ \A h \in Range(life[1].sinks) :
          /\ ~handlerObjs[h].closed
          /\ handlerObjs[h].received # <<>>
          /\ \A k \in DOMAIN handlerObjs[h].received :
                handlerObjs[h].received[k].src = 1

\* SubLog i is open and the file sink it attached is not on its channel
Ousted(i) ==
    /\ life[i].phase = "open"
    /\ life[i].sinks[1] \notin Range(loggerDict[sublogs[i].logger].handlers)

\* another SubLog with SubLog i's channel name
Rivals(i) == {j \in Objects \ {i} : sublogs[j].logger = sublogs[i].logger}

\* how an open SubLog i loses its file sink on a channel it shares: the
\* sink-clearing statement of a rival's creation takes it off the channel; it
\* leaves the channel only by that statement or by the release statement of a
\* rival's close(); and it never comes back
Ousting(i) ==
    LET ch == sublogs[i].logger
        fh == life[i].sinks[1]
    IN  /\ (life[i].phase = "open" /\ \E j \in Rivals(i) : InitStatement(j, 1))
             => fh \notin Range(loggerDict'[ch].handlers)
        /\ (life[i].phase = "open" /\ ~Ousted(i)
              /\ fh \notin Range(loggerDict'[ch].handlers))
             => \E j \in Rivals(i) : InitStatement(j, 1) \/ CloseStatement(j, 2)
        /\ (Ousted(i) /\ life'[i].phase = "open") => Ousted(i)'

\* this step is a log or run_subprocess call on SubLog i
Logs(i) == life'[i].calls = life[i].calls + 1

\* C25 as stated: two SubLogs with the same resolved channel name share the
\* channel; an open SubLog's file sink is taken off it by the sink-clearing
\* statement of the other's creation or by the other's close(), and from then
\* on a message logged through the SubLog goes to a sink of the other or to
\* no sink.
C25_SharedChannelRace ==
    [][\A i \in Objects :
         /\ Ousting(i)
         /\ (Ousted(i) /\ Logs(i)) =>
               \A h \in DOMAIN handlerObjs :
                   NewRecords(h) # {} => \E j \in Rivals(i) : h \in Range(life[j].sinks)
      ]_vars

\* C25, amended: from then on a message logged through the SubLog does not
\* reach the SubLog's file sink; it goes to the sinks then on the channel: a
\* sink of the other, the SubLog's own console sink when that was attached
\* after the other's sink-clearing statement, or none.
C25_SharedChannelFileLost ==
    [][\A i \in Objects :
         /\ Ousting(i)
         /\ (Ousted(i) /\ Logs(i)) =>
               /\ handlerObjs'[life[i].sinks[1]] = handlerObjs[life[i].sinks[1]]
               /\ \A h \in DOMAIN handlerObjs :
                     NewRecords(h) # {} =>
                        /\ h \in Range(loggerDict[sublogs[i].logger].handlers)
                        /\ \/ \E j \in Rivals(i) : h \in Range(life[j].sinks)
                           \/ h \in Range(Tail(life[i].sinks))
      ]_vars

\* the first SubLog is open, its file sink is off the channel it shares with
\* the second, and the message it logged was received by the second's file
\* sink and not by its own
C25_Witness ==
    /\ Len(sublogs) = 2
    /\ 2 \in Rivals(1)
    /\ Ousted(1)
    /\ life[1].calls = 1 /\ life[1].sent # <<>>
    /\ life[2].sinks # <<>>
    /\ \E k \in DOMAIN handlerObjs[life[2].sinks[1]].received :
          /\ handlerObjs[life[2].sinks[1]].received[k].src = 1
          /\ handlerObjs[life[2].sinks[1]].received[k].msg = "sentinel"
    /\ \A k \in DOMAIN handlerObjs[life[1].sinks[1]].received :
          handlerObjs[life[1].sinks[1]].received[k].msg # "sentinel"

\* handler h is on no channel
Detached(h) ==
    \A n \in DOMAIN loggerDict : h \notin Range(loggerDict[n].handlers)

\* an open file sink on no channel
Stray(h) ==
    /\ Detached(h)
    /\ handlerObjs[h].kind = "FileHandler"
    /\ handlerObjs[h].stream /\ ~handlerObjs[h].closed

\* this step is a SubLog creation or a start_logging call
Creating == result'.op \in {"SubLog", "sub_log", "start_logging"}

\* C26: a SubLog creation or a named-channel start_logging that clears the
\* sinks of a channel only detaches them: it takes every sink that was on the
\* channel off it and closes no handler, so an open file sink of an earlier
\* SubLog or session is left open on no channel; and such a sink stays so
\* through every later step, the close() calls of either SubLog included.
C26_ClearedNeverReleased ==
    [][\A h \in DOMAIN handlerObjs :
         /\ Creating =>
               /\ handlerObjs'[h].closed = handlerObjs[h].closed
               /\ handlerObjs'[h].stream = handlerObjs[h].stream
         /\ (~Detached(h) /\ Detached(h)') =>
               \/ handlerObjs'[h].closed /\ IsClose(result')
               \/ /\ Creating
                  /\ ~handlerObjs[h].closed => Stray(h)' \/ handlerObjs[h].kind # "FileHandler"
         /\ Stray(h) => Stray(h)'
      ]_vars

\* the second SubLog "a" took the channel over while the first was open; both
\* have been closed, and the first's file sink is still open, on no channel:
\* not every open file sink is attached to a channel
C26_Witness ==
    /\ Len(sublogs) = 2
    /\ sublogs[1].logger = sublogs[2].logger
    /\ life[1].closes >= 1 /\ life[2].closes >= 1
    /\ Stray(life[1].sinks[1])
    /\ handlerObjs[life[2].sinks[1]].closed
    /\ \E h \in DOMAIN handlerObjs :
          /\ h \notin Range(life[1].sinks) \cup Range(life[2].sinks)
          /\ Stray(h)

\* SubLog i has been closed: a close() call was made and its channel has no
\* handler
Closed(i) ==
    /\ life[i].closes >= 1
    /\ loggerDict[sublogs[i].logger].handlers = <<>>

\* this step is a message logged through SubLog i, or a command run by it
LogsOn(i) ==
    /\ result'.op \in {"log", "run_subprocess"} /\ result'.self = i
    /\ life'[i].calls = life[i].calls + 1

\* C27: a close() call that returns leaves the sub-log channel with no sink
\* and still not propagating; a message logged on a closed SubLog, the records
\* of run_subprocess included, is received by no handler of any channel, gets
\* into no file and onto no console, and the call raises nothing.
C27_ClosedStaysSilent ==
    [][\A i \in Objects :
         /\ (IsClose(result') /\ result'.self = i /\ result'.raised = ""
               /\ life'[i].closes = life[i].closes + 1) =>
               /\ loggerDict'[sublogs[i].logger].handlers = <<>>
               /\ ~loggerDict'[sublogs[i].logger].propagate
         /\ (Closed(i) /\ LogsOn(i)) =>
               /\ ~loggerDict[sublogs[i].logger].propagate
               /\ handlerObjs' = handlerObjs
               /\ files' = files
               /\ console' = console
               /\ loggerDict' = loggerDict
               /\ result'.raised = ""
      ]_vars

\* a SubLog under "main" was closed while the session on "main" had its file
\* sink on the parent channel, and then ran a command that printed to stderr:
\* no handler received a record of that command, which found no handler at all
C27_Witness ==
    \E i \in Objects :
        /\ result.op = "run_subprocess" /\ result.self = i /\ result.raised = ""
        /\ Closed(i) /\ life[i].closes = 1
        /\ sublogs[i].file_log_level = "DEBUG"
        /\ \E h \in HandlersOn(loggerDict, sublogs[i]._parent_logger) :
              \E k \in DOMAIN handlerObjs[h].received :
                  handlerObjs[h].received[k].src = i
        /\ \A h \in DOMAIN handlerObjs :
              \A k \in DOMAIN handlerObjs[h].received :
                  handlerObjs[h].received[k].msg # "Running command: cmd"
        /\ \E k \in DOMAIN lastResort :
              lastResort[k].msg = "[stderr] oops" /\ lastResort[k].src = i

\* the call made in this step raised the multiprocessing/named-channel error
RaisedOnNamed ==
    /\ Started(result', "main")
    /\ result'.raised = "ValueError"
    /\ result'.message = MultiprocessingMessage

\* the same call without multiprocessing_aware, which succeeds
SucceedingCall(a) ==
    start_logging(World, "out", a.package, NoVariables, TRUE, "DEBUG", "LOG", FALSE,
                  AllToggles, a.log_to_file, a.log_to_console, FALSE, a.logger_name,
                  now, DefaultEnv)

\* C28: a start_logging call that raises the multiprocessing/named-channel
\* error has, by then, written the header file anew (when a file was asked
\* for) and taken the named channel over: the handlers that were on it are off
\* it, propagate is false, and the handlers asked for are on it, all new. The
\* channels are as a call with the same options that succeeds leaves them.
C28_ErrorNotAtomic ==
    [][RaisedOnNamed =>
          LET a == result'.args
              hs == loggerDict'["main"].handlers
          IN  /\ a.log_to_file =>
                    /\ HeaderFile \in DOMAIN files'
                    /\ files'[HeaderFile] =
                          LoggingHeader(World, HeaderFile, a.package, NoVariables, "out",
                                        AllToggles, "LOG", now, DefaultEnv).w.files[HeaderFile]
                    /\ files'[HeaderFile] # <<>>
                    /\ \A k \in DOMAIN files'[HeaderFile] : IsHeaderText(files'[HeaderFile][k])
              /\ ~a.log_to_file => files' = files
              /\ "main" \in DOMAIN loggerDict'
              /\ ~loggerDict'["main"].propagate
              /\ \A h \in HandlersOn(loggerDict, "main") : h \notin Range(hs)
              /\ \A k \in DOMAIN hs : hs[k] \notin DOMAIN handlerObjs
              /\ [k \in DOMAIN hs |-> handlerObjs'[hs[k]].kind] = Requested(a)
              /\ \E ok \in {SucceedingCall(a)} :
                    /\ ok.raised = ""
                    /\ loggerDict' = ok.w.loggerDict
      ]_vars

\* a session on "main" had a file handler on the channel and had logged
\* there; a call asking for multiprocessing on "main", with a file and the
\* console, raised: the channel holds two other handlers and the log file is a
\* bare header again
C28_Witness ==
    /\ Started(result, "main") /\ sessions >= 2
    /\ result.raised = "ValueError"
    /\ result.args.log_to_file /\ result.args.log_to_console
    /\ Len(loggerDict["main"].handlers) = 2
    /\ ~loggerDict["main"].propagate
    /\ \A k \in DOMAIN files[HeaderFile] : IsHeaderText(files[HeaderFile][k])
    /\ \E h \in DOMAIN handlerObjs :
          /\ h \notin HandlersOn(loggerDict, "main")
          /\ handlerObjs[h].kind = "FileHandler"
          /\ \E k \in DOMAIN handlerObjs[h].received :
                handlerObjs[h].received[k].name = "main"

\* the SubLog creation made in this step raised
CreationFailed == result'.op \in {"SubLog", "sub_log"} /\ result'.raised # ""

\* channel ch is the only channel this step touched, and it is left with no
\* handler and not propagating
LeftBare(ch) ==
    /\ ch \in DOMAIN loggerDict'
    /\ loggerDict'[ch].handlers = <<>>
    /\ ~loggerDict'[ch].propagate
    /\ \A n \in DOMAIN loggerDict' \ {ch} :
          n \in DOMAIN loggerDict /\ loggerDict'[n] = loggerDict[n]

\* C29: when the sub-log file cannot be opened, the constructor (and sub_log)
\* raises the error of the open to its caller; no SubLog comes to be, so no
\* with block is entered and no close() runs; no record is delivered to any
\* handler of any channel and nothing is written or printed; and the sub-log
\* channel is left with no handler and propagate false, whatever handlers an
\* earlier SubLog or session had on it.
C29_OpenFailure ==
    [][CreationFailed =>
          /\ result'.raised = "OSError"
          /\ result'.self = 0
          /\ sublogs' = sublogs /\ life' = life
          /\ handlerObjs' = handlerObjs
          /\ files' = files /\ console' = console /\ lastResort' = lastResort
          /\ \E a \in RetryArgs : LeftBare(sub_logger_name(a.parent_logger_name, a.name))
      ]_vars

\* an open SubLog "a" had its file sink on the channel, and the root channel a
\* session's; creating "a" again through sub_log failed on the file: the
\* channel is bare, the first SubLog's file sink is open on no channel, and the
\* root's handler holds the breadcrumb of the first creation and none of the
\* second
C29_Witness ==
    /\ result.op = "sub_log" /\ result.raised = "OSError"
    /\ Len(sublogs) = 1
    /\ life[1].closes = 0 /\ life[1].ctx = ""
    /\ loggerDict[sublogs[1].logger].handlers = <<>>
    /\ ~loggerDict[sublogs[1].logger].propagate
    /\ Stray(life[1].sinks[1])
    /\ \E h \in HandlersOn(loggerDict, Root) :
          /\ \E k \in DOMAIN handlerObjs[h].received :
                handlerObjs[h].received[k] = StartingRecord(1)
          /\ \A k \in DOMAIN handlerObjs[h].received :
                handlerObjs[h].received[k].src # 2

\* this step is a creation, a run_subprocess or a close() of SubLog i
LifecycleStep(i) ==
    /\ result'.op \in {"SubLog", "sub_log", "run_subprocess", "close"}
    /\ result'.self = i
    /\ result' # result \/ life' # life

\* the effective level of the parent channel of SubLog i, as the step finds it,
\* is above INFO
ParentAboveInfo(i) ==
    LET p == sublogs'[i]._parent_logger
    IN  getEffectiveLevel(getLogger(World, p), p) > 20

\* SubLog i was made with a file level above INFO, and no other SubLog has its
\* channel name (one that had would have set the channel's level anew)
FileAboveInfo(i) ==
    /\ LevelNo(sublogs'[i].file_log_level) > 20
    /\ \A j \in DOMAIN sublogs' \ {i} : sublogs'[j].logger # sublogs'[i].logger

\* the lines this step added to file f
NewLines(f) ==
    LET old == IF f \in DOMAIN files THEN Len(files[f]) ELSE 0
    IN  {files'[f][k] : k \in (old + 1) .. Len(files'[f])}

\* C30: the messages of creation and close() are logged at INFO and pass the
\* level filters like any other: a creation or close() whose parent channel
\* has an effective level above INFO delivers no breadcrumb to any handler; a
\* SubLog made with a file level above INFO (its channel name being its own)
\* gets no INFO record into its file sink or its file, from creation,
\* run_subprocess or close(): no "started",
\* no "finished", no "[stdout]" line, no return-code summary; and these calls
\* raise nothing in either case.
C30_LifecycleFiltered ==
    [][\A i \in DOMAIN sublogs' :
         LifecycleStep(i) =>
           LET self == sublogs'[i]
           IN  /\ result'.op # "run_subprocess" =>
                     \A h \in DOMAIN handlerObjs' :
                         \A rec \in NewRecords(h) : rec.src = i => rec.levelno = 20
               /\ ParentAboveInfo(i) =>
                     /\ \A h \in DOMAIN handlerObjs' :
                           \A rec \in NewRecords(h) : rec.name # self._parent_logger
                     /\ result'.raised = ""
               /\ FileAboveInfo(i) =>
                     /\ \A rec \in NewRecords(life'[i].sinks[1]) : rec.levelno > 20
                     /\ \A rec \in NewLines(self.log_file) : rec.levelno > 20
                     /\ result'.raised = ""
      ]_vars

\* a session put a file handler on the root at WARNING; then a SubLog under
\* the root, made with file level WARNING, ran a command that printed to both
\* streams and was closed: the root's handler has no record of the SubLog and
\* the sub-log's file holds the "[stderr]" line alone
C30_Witness ==
    \E i \in Objects :
        /\ result.op = "close" /\ result.self = i /\ result.raised = ""
        /\ life[i].closes = 1 /\ life[i].calls = 1
        /\ sublogs[i].file_log_level = "WARNING"
        /\ sublogs[i]._parent_logger = Root
        /\ loggerDict[Root].level = 30
        /\ \E h \in HandlersOn(loggerDict, Root) :
              /\ h < life[i].sinks[1]
              /\ handlerObjs[h].kind = "FileHandler"
              /\ \A k \in DOMAIN handlerObjs[h].received :
                    handlerObjs[h].received[k].src # i
        /\ Texts(files[sublogs[i].log_file]) = <<"[stderr] oops">>

====
